---- MODULE Spec2Model ----
(***************************************************************************)
(* Verification model of the wordlelab solver scripts: the feedback        *)
(* (pattern) functions, the partition step, the memoized exact solvers     *)
(* (closed and open guess pool), the bounded memo of dp_top_blocks and the *)
(* forced-first-guess evaluators.                                          *)
(*                                                                         *)
(* Numbers: the scripts compute in IEEE doubles; the model computes the    *)
(* same expressions over exact rationals <<num, den>> (den = 0 stands for  *)
(* Infinity).  Letters are 1..AlphabetSize, words are 5-tuples of letters, *)
(* feedback codes are 5-tuples of "0" / "1" / "2" (the joined string of    *)
(* the scripts, character by character).                                   *)
(***************************************************************************)
EXTENDS Integers, Sequences, FiniteSets, TLC

\* ------------------------------------------------------------------------
\* Bounds of the model
\* ------------------------------------------------------------------------
AlphabetSize == 3

PoolSize == 4

MaxWords == 4

MaxCap == 2

\* calls of memoStore: the keys stored, and the evictions followed
MemoKeyCount == 4

MaxEvictions == 3

\* a capacity whose tenth is more than one entry
LargeCap == 20

\* the largest lookahead depth the table generator is started with
MaxDepth == 5

\* the most lines of a word file
MaxLines == 3

\* the Suggest run of main.js: the words of the loaded list, the most
\* candidates left after filtering, and the letters of the list
LookPool == 6

LookWords == 5

LookAlphabet == 4

\* ------------------------------------------------------------------------
\* Program constants
\* ------------------------------------------------------------------------
WordLen == 5

Letters == 1..AlphabetSize

Pos == 1..WordLen

AllWords == [Pos -> Letters]

AllCorrect == [i \in Pos |-> "2"]

VARIABLES
    phase,      \* "pattern": a feedback call; "partition": a partition call;
                \* "memo": calls of memoStore; "suggest": the page of main.js;
                \* "solve": a solver applied to a candidate set;
                \* "run": a solver script is running;
                \* "crashed": the script ended with an uncaught RangeError
    pg,         \* feedback call: the guess
    pa,         \* feedback call: the answer
    pres,       \* feedback call: results of the three feedback functions
    pres2,      \* feedback call: results of a second call on the same pair
    pS,         \* partition call: the candidate set (a list of indices)
    pgIdx,      \* partition call: the index of the guess
    pparts,     \* partition call: the Maps returned
    script,     \* which solver script is running
    WORDS,      \* the word list of the script (index i here is index i-1 there)
    PAT,        \* the precomputed pattern table, PAT[<<g, a>>]
    cap,        \* capacity of the memo (MAX_MEMO_ENTRIES of dp_top_blocks)
    memo,       \* the memo Map, in insertion order: <<[key, val], ...>>
    choice,     \* the choice Map (best guess per key), in insertion order
    statesEvaluated, \* counter of solver states computed (not served by the memo)
    evictions,  \* how many entries memoStore has evicted so far
    roots,      \* the root guesses still to evaluate, in evaluation order
    solved,     \* whether the solver was applied to the full candidate set
    last,       \* the most recent top-level call and what it returned
    MAX_DEPTH,  \* MAX_DEPTH of the table generator (0 in the other scripts)
    raw,        \* the text of the word file, as the list of its lines
    at,         \* suggestNext: where the call stands ("idle": no call runs)
    yielded,    \* suggestNext: the call waits on a timer or a fetch, so
                \* that the page handles clicks
    cancel,     \* state.cancel
    uiLocked,   \* uiLocked (the Stop button is enabled exactly when it is set)
    filtered,   \* state.filtered: the candidates, sorted as state.all is
    letterFiltered, \* the words of state.all that the letter filters of
                \* apply keep (globalInclude, globalExclude, state.pos)
    searchTester, \* state.searchTester: 0 for null, a letter for the tester
                \* of a search for that letter
    runS,       \* suggestNext: its S, the copy of state.filtered
    hardMode,   \* the hardMode checkbox
    poolSelect, \* the poolSelect choice: "current" or "2309"
    base2309,   \* state.base2309: the external pool once fetched
    maxCand,    \* the maxCand input
    maxPool,    \* the maxPool input
    pool,       \* suggestNext: the capped pool of root guesses
    loopI,      \* suggestNext: the i of the evaluation loop
    rows,       \* suggestNext: the rows pushed so far
    table,      \* the rows rendered in suggestTable
    status,     \* suggestStatus.textContent, as the list of its pieces
    ended       \* how the last call of suggestNext ended

patVars == <<pg, pa, pres, pres2>>

partVars == <<pS, pgIdx, pparts>>

runVars == <<script, WORDS, PAT, cap, memo, choice, statesEvaluated,
             evictions, roots, solved, last, MAX_DEPTH, raw>>

uiVars == <<at, yielded, cancel, uiLocked, filtered, letterFiltered,
            searchTester, runS, hardMode, poolSelect,
            base2309, maxCand, maxPool, pool, loopI, rows, table, status,
            ended>>

vars == <<phase, pg, pa, pres, pres2, pS, pgIdx, pparts, script, WORDS, PAT,
          cap, memo, choice, statesEvaluated, evictions, roots, solved, last,
          MAX_DEPTH, raw, at, yielded, cancel, uiLocked, filtered,
          letterFiltered, searchTester, runS, hardMode, poolSelect,
          base2309, maxCand, maxPool, pool, loopI, rows, table, status,
          ended>>

\* ------------------------------------------------------------------------
\* Feedback functions
\* ------------------------------------------------------------------------

\* variant of greens whose loop stops one position early
greens_stopsEarly(g, a) ==
    [res  |-> [i \in Pos |-> IF i < WordLen /\ g[i] = a[i] THEN "2" ELSE "0"],
     used |-> [i \in Pos |-> i < WordLen /\ g[i] = a[i]]]

\* first pass of patternOf / patternFor: greens, res and used together
greens(g, a) ==
    [res  |-> [i \in Pos |-> IF g[i] = a[i] THEN "2" ELSE "0"],
     used |-> [i \in Pos |-> g[i] = a[i]]]

\* variant of firstFree without the "!used[j]" test
firstFree_ignoresUsed(a, used, ch) ==
    LET J == {j \in Pos : a[j] = ch}
    IN  IF J = {} THEN 0 ELSE CHOOSE j \in J : \A k \in J : j <= k

\* inner loop "for j ... if (!used[j] && a[j] === ch)": first such j, 0 if none
firstFree(a, used, ch) ==
    LET J == {j \in Pos : ~used[j] /\ a[j] = ch}
    IN  IF J = {} THEN 0 ELSE CHOOSE j \in J : \A k \in J : j <= k

RECURSIVE yellowsUsed(_, _, _, _, _)
\* second pass of patternOf, positions i..5, scanning the guess left to right
yellowsUsed(g, a, i, res, used) ==
    IF i > WordLen THEN res
    ELSE IF res[i] = "2" THEN yellowsUsed(g, a, i + 1, res, used)
    ELSE LET j == firstFree(a, used, g[i])
         IN  IF j = 0 THEN yellowsUsed(g, a, i + 1, res, used)
             ELSE yellowsUsed(g, a, i + 1,
                              [res EXCEPT ![i] = "1"],
                              [used EXCEPT ![j] = TRUE])

\* variant of patternOf whose passes scan the positions from the right
patternOf_rightToLeft(guess, answer) ==
    LET rev(w) == [i \in Pos |-> w[WordLen + 1 - i]]
        p1     == greens(rev(guess), rev(answer))
    IN  rev(yellowsUsed(rev(guess), rev(answer), 1, p1.res, p1.used))

\* dp_solver_2.js patternOf (and the identical patternFor of the dp scripts)
patternOf(guess, answer) ==
    LET p1 == greens(guess, answer)
    IN  yellowsUsed(guess, answer, 1, p1.res, p1.used)

\* the letters of a word: the counts of the counting variants are kept for
\* the letters met (a letter with no entry counts as 0)
lettersOf(w) == {w[i] : i \in Pos}

\* variant of yellowsCnt that never decrements the count of a letter
yellowsCnt_keepsCount(g, i, res, cnt) ==
    [p \in Pos |-> IF p < i \/ res[p] = "2" THEN res[p]
                   ELSE IF cnt[g[p]] > 0 THEN "1" ELSE res[p]]

RECURSIVE yellowsCnt(_, _, _, _)
\* second pass of the counting variants: cnt[ch] > 0 => yellow, cnt[ch]--
yellowsCnt(g, i, res, cnt) ==
    IF i > WordLen THEN res
    ELSE IF res[i] = "2" THEN yellowsCnt(g, i + 1, res, cnt)
    ELSE IF cnt[g[i]] > 0
         THEN yellowsCnt(g, i + 1, [res EXCEPT ![i] = "1"],
                         [cnt EXCEPT ![g[i]] = @ - 1])
         ELSE yellowsCnt(g, i + 1, res, cnt)

\* main.js pattern: greens, and counts of the answer letters not matched
pattern(guess, answer) ==
    LET res == [i \in Pos |-> IF answer[i] = guess[i] THEN "2" ELSE "0"]
        cnt == [c \in lettersOf(guess) \cup lettersOf(answer) |->
                  Cardinality({i \in Pos : answer[i] # guess[i] /\ answer[i] = c})]
    IN  yellowsCnt(guess, 1, res, cnt)

\* part_001 patternFor (table generator): used[] from the greens, counts of
\* the unused answer letters, yellows where res[i] is still "0"
patternFor(guess, answer) ==
    LET p1  == greens(guess, answer)
        cnt == [c \in lettersOf(guess) \cup lettersOf(answer) |->
                  Cardinality({i \in Pos : ~p1.used[i] /\ answer[i] = c})]
    IN  yellowsCnt(guess, 1, p1.res, cnt)

\* ------------------------------------------------------------------------
\* Numbers of the scripts, as exact rationals <<num, den>>
\* ------------------------------------------------------------------------
RECURSIVE GCD(_, _)
GCD(a, b) == IF b = 0 THEN a ELSE GCD(b, a % b)

\* the quotient n / d of two numbers of the scripts (d = 0: Infinity)
Rat(n, d) ==
    IF d = 0 THEN <<1, 0>>
    ELSE LET k == GCD(n, d) IN <<n \div k, d \div k>>

Zero == Rat(0, 1)

One == Rat(1, 1)

Infinity == <<1, 0>>

RAdd(x, y) == Rat(x[1] * y[2] + y[1] * x[2], x[2] * y[2])

RMul(x, y) == Rat(x[1] * y[1], x[2] * y[2])

RLt(x, y) == x[1] * y[2] < y[1] * x[2]

RGe(x, y) == x[1] * y[2] >= y[1] * x[2]

RLe(x, y) == x[1] * y[2] <= y[1] * x[2]

\* ------------------------------------------------------------------------
\* JavaScript Map, kept as the sequence of its entries in insertion order
\* ------------------------------------------------------------------------
mapIdx(m, key) ==
    LET I == {i \in 1..Len(m) : m[i].key = key}
    IN  IF I = {} THEN 0 ELSE CHOOSE i \in I : TRUE

mapHas(m, key) == mapIdx(m, key) # 0

mapGet(m, key) == m[mapIdx(m, key)].val

\* Map.set: an existing key keeps its place, a new key goes last
mapSet(m, key, val) ==
    IF mapHas(m, key)
    THEN [m EXCEPT ![mapIdx(m, key)] = [key |-> key, val |-> val]]
    ELSE Append(m, [key |-> key, val |-> val])

\* ------------------------------------------------------------------------
\* Word list, pattern table, partition
\* ------------------------------------------------------------------------
N == Len(WORDS)

\* const allCands / fullState: the indices of every word, ascending
allCands == [i \in 1..N |-> i]

\* "Precompute pattern table": PAT[i][j] = patternFor(WORDS[i], WORDS[j])
buildTable(words) ==
    [p \in (1..Len(words)) \X (1..Len(words)) |->
        patternOf(words[p[1]], words[p[2]])]

RECURSIVE bucketsFrom(_, _, _, _)
\* variant of the partition loop that starts a new array for every candidate
bucketsFrom_newArray(cands, guessIdx, k, map) ==
    IF k > Len(cands) THEN map
    ELSE bucketsFrom(cands, guessIdx, k + 1,
             mapSet(map, PAT[<<guessIdx, cands[k]>>], <<cands[k]>>))

\* variant of the partition loop that puts each candidate at the front of
\* its bucket
bucketsFrom_prepends(cands, guessIdx, k, map) ==
    IF k > Len(cands) THEN map
    ELSE LET ansIdx == cands[k]
             pat    == PAT[<<guessIdx, ansIdx>>]
         IN  bucketsFrom(cands, guessIdx, k + 1,
                 IF mapHas(map, pat)
                 THEN mapSet(map, pat, <<ansIdx>> \o mapGet(map, pat))
                 ELSE mapSet(map, pat, <<ansIdx>>))

\* the partition loop of the solvers, from position k on: each candidate is
\* appended to the bucket of its code, a new bucket is created on first use
bucketsFrom(cands, guessIdx, k, map) ==
    IF k > Len(cands) THEN map
    ELSE LET ansIdx == cands[k]
             pat    == PAT[<<guessIdx, ansIdx>>]
         IN  bucketsFrom(cands, guessIdx, k + 1,
                 IF mapHas(map, pat)
                 THEN mapSet(map, pat, Append(mapGet(map, pat), ansIdx))
                 ELSE mapSet(map, pat, <<ansIdx>>))

\* dp_solver_2.js partitionState(SIndices, guessIdx): Map pattern -> indices
partitionState(SIndices, guessIdx) == bucketsFrom(SIndices, guessIdx, 1, <<>>)

\* "const x = v; ... x ...": v is evaluated once and its value used in F
Bind(v, F(_)) == CHOOSE y \in {F(x) : x \in {v}} : TRUE

RECURSIVE byPatternFrom(_, _, _, _)
\* the loop of main.js partitionByPattern, over words, from position k on
byPatternFrom(S, guess, k, map) ==
    IF k > Len(S) THEN map
    ELSE Bind(pattern(guess, S[k]), LAMBDA p :
             Bind(IF mapHas(map, p)
                  THEN mapSet(map, p, Append(mapGet(map, p), S[k]))
                  ELSE mapSet(map, p, <<S[k]>>),
                  LAMBDA map2 : byPatternFrom(S, guess, k + 1, map2)))

\* main.js partitionByPattern(S, guess): Map pattern -> words
partitionByPattern(S, guess) == byPatternFrom(S, guess, 1, <<>>)

\* ------------------------------------------------------------------------
\* What a solver call returns: the value, the best guess (0: none, the -1
\* of the scripts), the memo state it leaves, and whether it ended in the
\* RangeError of an unbounded recursion
\* ------------------------------------------------------------------------
Ret(value, bestGuess, st) ==
    [value |-> value, bestGuess |-> bestGuess, st |-> st, err |-> FALSE]

\* a recursive call on a set with the key of the set being solved: the key
\* is stored only after the guess loop, so the recursion never returns and
\* the call stack overflows
Overflow(st) ==
    [value |-> Zero, bestGuess |-> 0, st |-> st, err |-> TRUE]

countState(st) == [st EXCEPT !.statesEvaluated = @ + 1]

\* a solver is invoked on the bucket b: the invocations on a bucket whose
\* code is all-correct are counted
calledOn(b, st) ==
    IF b.key = AllCorrect THEN [st EXCEPT !.allCorrectCalls = @ + 1] ELSE st

\* variant of memoValue that adds the guess to the stored value once more
memoValue_countsGuess(st, key) == RAdd(One, mapGet(st.memo, key))

\* "return memo.get(key)" / "return dp.get(key)" on a hit: the stored value
memoValue(st, key) == mapGet(st.memo, key)

\* ------------------------------------------------------------------------
\* dp_solver_2.js, first script: solveState with the dp Map
\* (a dp entry {value, bestGuess} is the memo entry and the choice entry)
\* ------------------------------------------------------------------------
stateKey(SIndices) == SortSeq(SIndices, LAMBDA x, y : x < y)

RECURSIVE solveState(_, _)
RECURSIVE stateGuesses(_, _, _, _, _)
RECURSIVE stateBuckets(_, _, _, _, _, _)

\* variant of prob that gives every bucket the weight of one word
prob_oneWord(bucket, SIndices) == Rat(1, Len(SIndices))

\* "const m = bucket.length; const p = m / total"
prob(bucket, SIndices) == Rat(Len(bucket), Len(SIndices))

\* variant of stateBucketsNext that breaks one guess early
stateBucketsNext_breaksEarly(SIndices, parts, bi, e2, bestValue, st) ==
    IF RGe(RAdd(One, e2), bestValue) THEN Ret(e2, 0, st)
    ELSE stateBuckets(SIndices, parts, bi + 1, e2, bestValue, st)

\* the rest of one pass of the bucket loop, after expected += ...
stateBucketsNext(SIndices, parts, bi, e2, bestValue, st) ==
    IF RGe(e2, bestValue) THEN Ret(e2, 0, st)
    ELSE stateBuckets(SIndices, parts, bi + 1, e2, bestValue, st)

\* "for (const [pat, bucket] of parts.entries())", from entry bi on
stateBuckets(SIndices, parts, bi, expected, bestValue, st) ==
    IF bi > Len(parts) THEN Ret(expected, 0, st)
    ELSE LET pat    == parts[bi].key
             bucket == parts[bi].val
             p      == prob(bucket, SIndices)
         IN  IF pat = AllCorrect
             THEN stateBucketsNext(SIndices, parts, bi,
                      RAdd(expected, RMul(p, One)), bestValue, st)
             ELSE IF stateKey(bucket) = stateKey(SIndices) THEN Overflow(st)
             ELSE Bind(solveState(bucket, calledOn(parts[bi], st)), LAMBDA sub :
                      IF sub.err THEN sub
                      ELSE stateBucketsNext(SIndices, parts, bi,
                               RAdd(expected, RMul(p, RAdd(One, sub.value))),
                               bestValue, sub.st))

\* variant of the guess loop that updates the best guess on "<="
stateGuesses_lastMin(SIndices, gi, bestValue, bestGuess, st) ==
    IF gi > Len(SIndices) THEN Ret(bestValue, bestGuess, st)
    ELSE Bind(stateBuckets(SIndices, partitionState(SIndices, SIndices[gi]),
                           1, Zero, bestValue, st),
              LAMBDA r :
                 IF r.err THEN r
                 ELSE IF RLe(r.value, bestValue)
                 THEN stateGuesses(SIndices, gi + 1, r.value, SIndices[gi], r.st)
                 ELSE stateGuesses(SIndices, gi + 1, bestValue, bestGuess, r.st))

\* "for (const guessIdx of SIndices)", from position gi on
stateGuesses(SIndices, gi, bestValue, bestGuess, st) ==
    IF gi > Len(SIndices) THEN Ret(bestValue, bestGuess, st)
    ELSE Bind(stateBuckets(SIndices, partitionState(SIndices, SIndices[gi]),
                           1, Zero, bestValue, st),
              LAMBDA r :
                 IF r.err THEN r
                 ELSE IF RLt(r.value, bestValue)
                 THEN stateGuesses(SIndices, gi + 1, r.value, SIndices[gi], r.st)
                 ELSE stateGuesses(SIndices, gi + 1, bestValue, bestGuess, r.st))

solveState(SIndices, st) ==
    LET n   == Len(SIndices)
        key == stateKey(SIndices)
    IN  IF n = 0 THEN Ret(Zero, 0, st)
        ELSE IF n = 1 THEN Ret(One, SIndices[1], st)
        ELSE IF mapHas(st.memo, key)
        THEN Ret(memoValue(st, key), mapGet(st.choice, key), st)
        ELSE Bind(stateGuesses(SIndices, 1, Infinity, 0, countState(st)),
                  LAMBDA r :
                     IF r.err THEN r
                     ELSE Ret(r.value, r.bestGuess,
                              [r.st EXCEPT
                                  !.memo   = mapSet(@, key, r.value),
                                  !.choice = mapSet(@, key, r.bestGuess)]))

\* ------------------------------------------------------------------------
\* part_000 (dp_top_blocks): bounded memo, solveTail, solveWithFixedRoot
\* ------------------------------------------------------------------------
MAX_MEMO_ENTRIES == 8000000

\* variant of toRemove that removes nothing
toRemove_none(capacity) == 0

\* Math.max(1, Math.floor(capacity * EVICT_FRACTION)), EVICT_FRACTION = 0.10
toRemove(capacity) ==
    IF capacity \div 10 > 1 THEN capacity \div 10 ELSE 1

\* variant of memoStore that, at capacity, reuses the oldest entry for the
\* new value without changing its key
memoStore_reusesSlot(st, key, value) ==
    IF Len(st.memo) >= st.cap
    THEN [st EXCEPT !.memo = [@ EXCEPT ![1] = [key |-> @.key, val |-> value]],
                    !.evictions = @ + 1]
    ELSE [st EXCEPT !.memo = mapSet(@, key, value)]

\* variant of memoStore that, at capacity, deletes the newest entries
memoStore_evictsNewest(st, key, value) ==
    IF Len(st.memo) >= st.cap
    THEN LET removed == IF toRemove(st.cap) < Len(st.memo)
                        THEN toRemove(st.cap) ELSE Len(st.memo)
             kept    == SubSeq(st.memo, 1, Len(st.memo) - removed)
         IN  [st EXCEPT !.memo = mapSet(kept, key, value),
                        !.evictions = @ + removed]
    ELSE [st EXCEPT !.memo = mapSet(@, key, value)]

\* memoStore(key, value): at capacity, the first toRemove keys of the Map
\* (the oldest inserted) are deleted; then memo.set
memoStore(st, key, value) ==
    IF Len(st.memo) >= st.cap
    THEN LET removed == IF toRemove(st.cap) < Len(st.memo)
                        THEN toRemove(st.cap) ELSE Len(st.memo)
             kept    == SubSeq(st.memo, removed + 1, Len(st.memo))
         IN  [st EXCEPT !.memo = mapSet(kept, key, value),
                        !.evictions = @ + removed]
    ELSE [st EXCEPT !.memo = mapSet(@, key, value)]

\* the inline partition loop of the solvers and of the root evaluators
buckets(cands, gIdx) == bucketsFrom(cands, gIdx, 1, <<>>)

\* variant of weighted that multiplies by the bucket size, not by prob
weighted_bySize(arr, size, subE) == RMul(Rat(Len(arr), 1), subE)

\* "prob * subE" for the bucket arr of a set of the given size
weighted(arr, size, subE) == RMul(Rat(Len(arr), size), subE)

\* "if (totalE < bestE) bestE = totalE"
minE(totalE, bestE) == IF RLt(totalE, bestE) THEN totalE ELSE bestE

RECURSIVE solveTail(_, _)
RECURSIVE tailGuesses(_, _, _, _)
RECURSIVE tailBuckets(_, _, _, _, _, _)

\* the rest of one pass of the bucket loop, after expectedTail += prob * subE
tailBucketsNext(cands, bs, bi, e2, bestE, st) ==
    IF RGe(RAdd(One, e2), bestE) THEN Ret(e2, 0, st)
    ELSE tailBuckets(cands, bs, bi + 1, e2, bestE, st)

\* "for (const arr of buckets.values())", from entry bi on
tailBuckets(cands, bs, bi, expectedTail, bestE, st) ==
    IF bi > Len(bs) THEN Ret(expectedTail, 0, st)
    ELSE IF bs[bi].val = cands THEN Overflow(st)
    ELSE Bind(solveTail(bs[bi].val, calledOn(bs[bi], st)), LAMBDA subE :
             IF subE.err THEN subE
             ELSE tailBucketsNext(cands, bs, bi,
                      RAdd(expectedTail,
                           weighted(bs[bi].val, Len(cands), subE.value)),
                      bestE, subE.st))

\* variant of the guess loop that tries every word of the list as a guess
tailGuesses_allWords(cands, gi, bestE, st) ==
    IF gi > N THEN Ret(bestE, 0, st)
    ELSE Bind(tailBuckets(cands, buckets(cands, gi), 1, Zero, bestE, st),
              LAMBDA r :
                 IF r.err THEN r
                 ELSE tailGuesses(cands, gi + 1,
                                  minE(RAdd(One, r.value), bestE), r.st))

\* "for (let gi = 0; gi < len; gi++)", from position gi on
tailGuesses(cands, gi, bestE, st) ==
    IF gi > Len(cands) THEN Ret(bestE, 0, st)
    ELSE Bind(tailBuckets(cands, buckets(cands, cands[gi]), 1, Zero, bestE, st),
              LAMBDA r :
                 IF r.err THEN r
                 ELSE tailGuesses(cands, gi + 1,
                                  minE(RAdd(One, r.value), bestE), r.st))

solveTail(cands, st) ==
    LET len == Len(cands)
        key == cands
    IN  IF len <= 0 THEN Ret(Zero, 0, st)
        ELSE IF len = 1 THEN Ret(One, 0, st)
        ELSE IF mapHas(st.memo, key) THEN Ret(memoValue(st, key), 0, st)
        ELSE Bind(tailGuesses(cands, 1, Infinity, countState(st)), LAMBDA r :
                 IF r.err THEN r
                 ELSE Ret(r.value, 0, memoStore(r.st, key, r.value)))

RECURSIVE rootBuckets(_, _, _, _)
\* the bucket loop of solveWithFixedRoot (no early break)
rootBuckets(bs, bi, expectedTail, st) ==
    IF bi > Len(bs) THEN Ret(expectedTail, 0, st)
    ELSE Bind(solveTail(bs[bi].val, calledOn(bs[bi], st)), LAMBDA subE :
             IF subE.err THEN subE
             ELSE rootBuckets(bs, bi + 1,
                      RAdd(expectedTail, weighted(bs[bi].val, N, subE.value)),
                      subE.st))

\* "return 1 + expectedTail" (and its copies in the other scripts)
onePlus(r) == IF r.err THEN r ELSE Ret(RAdd(One, r.value), 0, r.st)

solveWithFixedRoot(gIdx, st) ==
    Bind(rootBuckets(buckets(allCands, gIdx), 1, Zero, st), onePlus)

\* ------------------------------------------------------------------------
\* dp_solver_2.js, second script: solveState with the memo and choice Maps
\* ------------------------------------------------------------------------
\* "memo.set(key, bestE); if (bestG >= 0) choice.set(key, bestG)"
setMemoChoice(st, key, bestE, bestG) ==
    IF bestG >= 1
    THEN [st EXCEPT !.memo = mapSet(@, key, bestE),
                    !.choice = mapSet(@, key, bestG)]
    ELSE [st EXCEPT !.memo = mapSet(@, key, bestE)]

RECURSIVE solveState_dp(_, _)
RECURSIVE dpGuesses(_, _, _, _, _)
RECURSIVE dpBuckets(_, _, _, _, _, _)

dpBucketsNext(cands, bs, bi, e2, bestE, st) ==
    IF RGe(RAdd(e2, One), bestE) THEN Ret(e2, 0, st)
    ELSE dpBuckets(cands, bs, bi + 1, e2, bestE, st)

dpBuckets(cands, bs, bi, expected, bestE, st) ==
    IF bi > Len(bs) THEN Ret(expected, 0, st)
    ELSE IF bs[bi].val = cands THEN Overflow(st)
    ELSE Bind(solveState_dp(bs[bi].val, calledOn(bs[bi], st)), LAMBDA subE :
             IF subE.err THEN subE
             ELSE dpBucketsNext(cands, bs, bi,
                      RAdd(expected, weighted(bs[bi].val, Len(cands), subE.value)),
                      bestE, subE.st))

dpGuesses(cands, gi, bestE, bestG, st) ==
    IF gi > Len(cands) THEN Ret(bestE, bestG, st)
    ELSE Bind(dpBuckets(cands, buckets(cands, cands[gi]), 1, Zero, bestE, st),
              LAMBDA r :
                 IF r.err THEN r
                 ELSE IF RLt(RAdd(One, r.value), bestE)
                 THEN dpGuesses(cands, gi + 1, RAdd(One, r.value), cands[gi], r.st)
                 ELSE dpGuesses(cands, gi + 1, bestE, bestG, r.st))

solveState_dp(cands, st) ==
    LET len == Len(cands)
        key == cands
    IN  IF len <= 0 THEN Ret(Zero, 0, st)
        ELSE IF len = 1 THEN Ret(One, 0, st)
        ELSE IF mapHas(st.memo, key) THEN Ret(memoValue(st, key), 0, st)
        ELSE Bind(dpGuesses(cands, 1, Infinity, 0, countState(st)), LAMBDA r :
                 IF r.err THEN r
                 ELSE Ret(r.value, r.bestGuess,
                          setMemoChoice(r.st, key, r.value, r.bestGuess)))

\* ------------------------------------------------------------------------
\* part_001 (dp_ext): solveTail with the whole word list as guess pool
\* ------------------------------------------------------------------------
RECURSIVE solveTail_ext(_, _)
RECURSIVE extGuesses(_, _, _, _)
RECURSIVE extBuckets(_, _, _, _, _, _)

extBucketsNext(cands, bs, bi, e2, bestE, st) ==
    IF RGe(RAdd(One, e2), bestE) THEN Ret(e2, 0, st)
    ELSE extBuckets(cands, bs, bi + 1, e2, bestE, st)

extBuckets(cands, bs, bi, expectedTail, bestE, st) ==
    IF bi > Len(bs) THEN Ret(expectedTail, 0, st)
    ELSE IF bs[bi].val = cands THEN Overflow(st)
    ELSE Bind(solveTail_ext(bs[bi].val, calledOn(bs[bi], st)), LAMBDA subE :
             IF subE.err THEN subE
             ELSE extBucketsNext(cands, bs, bi,
                      RAdd(expectedTail,
                           weighted(bs[bi].val, Len(cands), subE.value)),
                      bestE, subE.st))

\* "for (let gIdx = 0; gIdx < N; gIdx++)", from gIdx on
extGuesses(cands, gIdx, bestE, st) ==
    IF gIdx > N THEN Ret(bestE, 0, st)
    ELSE Bind(extBuckets(cands, buckets(cands, gIdx), 1, Zero, bestE, st),
              LAMBDA r :
                 IF r.err THEN r
                 ELSE extGuesses(cands, gIdx + 1,
                                 minE(RAdd(One, r.value), bestE), r.st))

solveTail_ext(cands, st) ==
    LET len == Len(cands)
        key == cands
    IN  IF len <= 0 THEN Ret(Zero, 0, st)
        ELSE IF len = 1 THEN Ret(One, 0, st)
        ELSE IF mapHas(st.memo, key) THEN Ret(memoValue(st, key), 0, st)
        ELSE Bind(extGuesses(cands, 1, Infinity, countState(st)), LAMBDA r :
                 IF r.err THEN r
                 ELSE Ret(r.value, 0,
                          [r.st EXCEPT !.memo = mapSet(@, key, r.value)]))

RECURSIVE rootBuckets_ext(_, _, _, _)
rootBuckets_ext(bs, bi, expectedTail, st) ==
    IF bi > Len(bs) THEN Ret(expectedTail, 0, st)
    ELSE Bind(solveTail_ext(bs[bi].val, calledOn(bs[bi], st)), LAMBDA subE :
             IF subE.err THEN subE
             ELSE rootBuckets_ext(bs, bi + 1,
                      RAdd(expectedTail, weighted(bs[bi].val, N, subE.value)),
                      subE.st))

solveWithFixedRoot_ext(gIdx, st) ==
    Bind(rootBuckets_ext(buckets(allCands, gIdx), 1, Zero, st), onePlus)

\* ------------------------------------------------------------------------
\* part_001 (dp_top200): solveState skipping the all-correct bucket,
\* expectedWithRoot
\* ------------------------------------------------------------------------
RECURSIVE solveState_top200(_, _)
RECURSIVE topGuesses(_, _, _, _, _)
RECURSIVE topBuckets(_, _, _, _, _, _)

topBucketsNext(cands, bs, bi, e2, bestE, st) ==
    IF RGe(RAdd(One, e2), bestE) THEN Ret(e2, 0, st)
    ELSE topBuckets(cands, bs, bi + 1, e2, bestE, st)

\* "if (pat === '22222') continue": no recursive call, no bound test
topBuckets(cands, bs, bi, expectedSub, bestE, st) ==
    IF bi > Len(bs) THEN Ret(expectedSub, 0, st)
    ELSE IF bs[bi].key = AllCorrect
    THEN topBuckets(cands, bs, bi + 1, expectedSub, bestE, st)
    ELSE IF bs[bi].val = cands THEN Overflow(st)
    ELSE Bind(solveState_top200(bs[bi].val, calledOn(bs[bi], st)), LAMBDA subE :
             IF subE.err THEN subE
             ELSE topBucketsNext(cands, bs, bi,
                      RAdd(expectedSub,
                           weighted(bs[bi].val, Len(cands), subE.value)),
                      bestE, subE.st))

topGuesses(cands, gi, bestE, bestG, st) ==
    IF gi > Len(cands) THEN Ret(bestE, bestG, st)
    ELSE Bind(topBuckets(cands, buckets(cands, cands[gi]), 1, Zero, bestE, st),
              LAMBDA r :
                 IF r.err THEN r
                 ELSE IF RLt(RAdd(One, r.value), bestE)
                 THEN topGuesses(cands, gi + 1, RAdd(One, r.value), cands[gi], r.st)
                 ELSE topGuesses(cands, gi + 1, bestE, bestG, r.st))

solveState_top200(cands, st) ==
    LET len == Len(cands)
        key == cands
    IN  IF len <= 0 THEN Ret(Zero, 0, st)
        ELSE IF len = 1 THEN Ret(One, 0, st)
        ELSE IF mapHas(st.memo, key) THEN Ret(memoValue(st, key), 0, st)
        ELSE Bind(topGuesses(cands, 1, Infinity, 0, countState(st)), LAMBDA r :
                 IF r.err THEN r
                 ELSE Ret(r.value, r.bestGuess,
                          setMemoChoice(r.st, key, r.value, r.bestGuess)))

RECURSIVE rootBuckets_top200(_, _, _, _)
rootBuckets_top200(bs, bi, expectedSub, st) ==
    IF bi > Len(bs) THEN Ret(expectedSub, 0, st)
    ELSE IF bs[bi].key = AllCorrect
    THEN rootBuckets_top200(bs, bi + 1, expectedSub, st)
    ELSE Bind(solveState_top200(bs[bi].val, calledOn(bs[bi], st)), LAMBDA subE :
             IF subE.err THEN subE
             ELSE rootBuckets_top200(bs, bi + 1,
                      RAdd(expectedSub, weighted(bs[bi].val, N, subE.value)),
                      subE.st))

expectedWithRoot(rootIdx, st) ==
    Bind(rootBuckets_top200(buckets(allCands, rootIdx), 1, Zero, st), onePlus)

\* ------------------------------------------------------------------------
\* main.js, dp script (hard mode): solveState, expectedGivenFirstGuess
\* ------------------------------------------------------------------------
RECURSIVE solveState_hard(_, _)
RECURSIVE hardGuesses(_, _, _, _, _)
RECURSIVE hardBuckets(_, _, _, _, _, _)

\* on the early break expectedSub is set to Infinity
hardBucketsNext(cands, bs, bi, e2, bestE, st) ==
    IF RGe(RAdd(e2, One), bestE) THEN Ret(Infinity, 0, st)
    ELSE hardBuckets(cands, bs, bi + 1, e2, bestE, st)

hardBuckets(cands, bs, bi, expectedSub, bestE, st) ==
    IF bi > Len(bs) THEN Ret(expectedSub, 0, st)
    ELSE IF bs[bi].val = cands THEN Overflow(st)
    ELSE Bind(solveState_hard(bs[bi].val, calledOn(bs[bi], st)), LAMBDA subE :
             IF subE.err THEN subE
             ELSE hardBucketsNext(cands, bs, bi,
                      RAdd(expectedSub,
                           weighted(bs[bi].val, Len(cands), subE.value)),
                      bestE, subE.st))

\* variant of the guess loop without the "+ 1" of the guess itself
hardGuesses_noGuessCost(cands, gi, bestE, bestG, st) ==
    IF gi > Len(cands) THEN Ret(bestE, bestG, st)
    ELSE Bind(hardBuckets(cands, buckets(cands, cands[gi]), 1, Zero, bestE, st),
              LAMBDA r :
                 IF r.err THEN r
                 ELSE IF RLt(r.value, bestE)
                 THEN hardGuesses(cands, gi + 1, r.value, cands[gi], r.st)
                 ELSE hardGuesses(cands, gi + 1, bestE, bestG, r.st))

hardGuesses(cands, gi, bestE, bestG, st) ==
    IF gi > Len(cands) THEN Ret(bestE, bestG, st)
    ELSE Bind(hardBuckets(cands, buckets(cands, cands[gi]), 1, Zero, bestE, st),
              LAMBDA r :
                 IF r.err THEN r
                 ELSE IF RLt(RAdd(One, r.value), bestE)
                 THEN hardGuesses(cands, gi + 1, RAdd(One, r.value), cands[gi], r.st)
                 ELSE hardGuesses(cands, gi + 1, bestE, bestG, r.st))

solveState_hard(cands, st) ==
    LET len == Len(cands)
        key == cands
    IN  IF len <= 0 THEN Ret(Zero, 0, st)
        ELSE IF len = 1 THEN Ret(One, 0, st)
        ELSE IF mapHas(st.memo, key) THEN Ret(memoValue(st, key), 0, st)
        ELSE Bind(hardGuesses(cands, 1, Infinity, 0, countState(st)), LAMBDA r :
                 IF r.err THEN r
                 ELSE Ret(r.value, r.bestGuess,
                          setMemoChoice(r.st, key, r.value, r.bestGuess)))

RECURSIVE rootBuckets_hard(_, _, _, _)
rootBuckets_hard(bs, bi, Esub, st) ==
    IF bi > Len(bs) THEN Ret(Esub, 0, st)
    ELSE Bind(solveState_hard(bs[bi].val, calledOn(bs[bi], st)), LAMBDA subE :
             IF subE.err THEN subE
             ELSE rootBuckets_hard(bs, bi + 1,
                      RAdd(Esub, weighted(bs[bi].val, N, subE.value)), subE.st))

expectedGivenFirstGuess(rootIdx, st) ==
    Bind(rootBuckets_hard(buckets(allCands, rootIdx), 1, Zero, st), onePlus)

\* ------------------------------------------------------------------------
\* Entropy ranking of the root guesses
\* ------------------------------------------------------------------------
RECURSIVE Power(_, _)
Power(b, e) == IF e = 0 THEN 1 ELSE b * Power(b, e - 1)

RECURSIVE weightFrom(_, _)
weightFrom(bs, bi) ==
    IF bi > Len(bs) THEN 1
    ELSE Power(Len(bs[bi].val), Len(bs[bi].val)) * weightFrom(bs, bi + 1)

\* entropyOfFirstGuess(guessIdx) = log2 N - (1/N) * log2 of the product of
\* count^count over the pattern counts: a larger product is a smaller entropy
entropyWeight(guessIdx) == weightFrom(buckets(allCands, guessIdx), 1)

\* "wa < wb" on two words
wordLt(wa, wb) ==
    \E i \in Pos : /\ wa[i] < wb[i]
                   /\ \A j \in 1..(i - 1) : wa[j] = wb[j]

\* dp_top_blocks / dp_ext: entropy descending, then the word, ascending
\* (a stable sort: equal words keep their index order)
rankedBefore(a, b) ==
    \/ entropyWeight(a) < entropyWeight(b)
    \/ /\ entropyWeight(a) = entropyWeight(b)
       /\ \/ wordLt(WORDS[a], WORDS[b])
          \/ WORDS[a] = WORDS[b] /\ a < b

\* dp_top200 / main.js: entropy descending only (a stable sort)
rankedBefore_top200(a, b) ==
    \/ entropyWeight(a) < entropyWeight(b)
    \/ entropyWeight(a) = entropyWeight(b) /\ a < b

entropyList == SortSeq(allCands, rankedBefore)

entropyList_top200 == SortSeq(allCands, rankedBefore_top200)

\* entropyList.slice(startRank, endRank) for block size and block index
selectedStarters(BLOCK_SIZE, BLOCK_INDEX) ==
    LET startRank == (BLOCK_INDEX - 1) * BLOCK_SIZE
        endRank   == IF startRank + BLOCK_SIZE < N
                     THEN startRank + BLOCK_SIZE ELSE N
    IN  SubSeq(entropyList, startRank + 1, endRank)

\* entropyList.slice(0, Math.min(TOP_K, N))
topK(TOP_K) ==
    SubSeq(entropyList_top200, 1, IF TOP_K < N THEN TOP_K ELSE N)

\* ------------------------------------------------------------------------
\* The arrays of a call.  A heap is the list of the arrays alive, an array
\* is known by its place in the heap; the candidate array passed to a call
\* is array 1.  The elements are the indices of the words (the table
\* generator holds the words themselves: the word WORDS[i] stands as i).
\* ------------------------------------------------------------------------
\* variant of slice that hands back the array itself
slice_sameArray(heap, ref) == [heap |-> heap, ref |-> ref]

\* "arr.slice()": a new array with the elements of arr
slice(heap, ref) == [heap |-> Append(heap, heap[ref]), ref |-> Len(heap) + 1]

\* ".sort((a, b) => a - b)" and ".sort()" of words: the array is sorted in
\* place
sortInPlace(heap, ref) ==
    [heap EXCEPT ![ref] =
        IF script = "table"
        THEN SortSeq(@, LAMBDA a, b : wordLt(WORDS[a], WORDS[b]))
        ELSE SortSeq(@, LAMBDA a, b : a < b)]

\* "arr = []": a new empty array
newArray(heap) == [heap |-> Append(heap, <<>>), ref |-> Len(heap) + 1]

\* "arr.push(x)"
push(heap, ref, x) == [heap EXCEPT ![ref] = Append(@, x)]

\* the code of the answer x under the guess g: a read of the pattern table
\* (the table generator calls patternFor)
codeOf(g, x) ==
    IF script = "table" THEN patternFor(WORDS[g], WORDS[x]) ELSE PAT[<<g, x>>]

RECURSIVE partitionArrays(_, _, _, _, _)
\* the partition loop over the array ref, from position k on: the Map gives
\* for each code the array of its bucket
partitionArrays(heap, ref, g, k, map) ==
    IF k > Len(heap[ref]) THEN [heap |-> heap, map |-> map]
    ELSE Bind(codeOf(g, heap[ref][k]), LAMBDA pat :
            IF mapHas(map, pat)
            THEN Bind(push(heap, mapGet(map, pat), heap[ref][k]), LAMBDA h2 :
                    partitionArrays(h2, ref, g, k + 1, map))
            ELSE Bind(newArray(heap), LAMBDA a :
                    Bind(push(a.heap, a.ref, heap[ref][k]), LAMBDA h2 :
                       partitionArrays(h2, ref, g, k + 1,
                                       mapSet(map, pat, a.ref)))))

\* the array a solver works on after it has made its key: stateKey of
\* dp_solver_2.js sorts a copy and the solver goes on with the array it
\* was passed; bestExpected sorts a copy and goes on with the copy; the
\* other solvers join the array they were passed
keyedArray(heap, ref) ==
    IF script \in {"dp_solver", "table"}
    THEN Bind(slice(heap, ref), LAMBDA c :
            [heap |-> sortInPlace(c.heap, c.ref),
             ref  |-> IF script = "table" THEN c.ref ELSE ref])
    ELSE [heap |-> heap, ref |-> ref]

RECURSIVE solveArrays(_, _, _)
RECURSIVE guessArrays(_, _, _, _)
RECURSIVE bucketArrays(_, _, _, _)

\* the bucket loop of a solver, from entry bi on: the heap after the calls
\* on the buckets (dp_solver_2.js and the table generator make no call on
\* the all-correct bucket)
bucketArrays(heap, map, bi, depth) ==
    IF bi > Len(map) THEN heap
    ELSE IF map[bi].key = AllCorrect /\ script \in {"dp_solver", "table"}
    THEN bucketArrays(heap, map, bi + 1, depth)
    ELSE Bind(solveArrays(heap, map[bi].val, depth - 1), LAMBDA h2 :
            bucketArrays(h2, map, bi + 1, depth))

\* the guess loop of a solver over the array ref, from position gi on
guessArrays(heap, ref, gi, depth) ==
    IF gi > Len(heap[ref]) THEN heap
    ELSE Bind(partitionArrays(heap, ref, heap[ref][gi], 1, <<>>), LAMBDA p :
            Bind(bucketArrays(p.heap, p.map, 1, depth), LAMBDA h2 :
               guessArrays(h2, ref, gi + 1, depth)))

\* the heap after a closed-policy solver was called on the array ref, every
\* guess tried and every bucket passed on (a memo hit or an early break
\* leaves calls out; none adds one); depth counts for bestExpected only
solveArrays(heap, ref, depth) ==
    IF Len(heap[ref]) = 1 THEN heap
    ELSE IF script = "table" /\ depth <= 0 THEN heap
    ELSE IF Len(heap[ref]) = 0 /\ script # "table" THEN heap
    ELSE Bind(keyedArray(heap, ref), LAMBDA c :
            guessArrays(c.heap, c.ref, 1, depth))

\* the heap after evalStartingGuess was called on the array ref
evalArrays(heap, ref, g, depth) ==
    Bind(partitionArrays(heap, ref, g, 1, <<>>), LAMBDA p :
       bucketArrays(p.heap, p.map, 1, depth))

\* ------------------------------------------------------------------------
\* The run of one script
\* ------------------------------------------------------------------------
Scripts == {"dp_solver", "dp_solver_choice", "dp_top_blocks", "dp_ext",
            "dp_top200", "dp_hard"}

\* the k-th word of the pool: three fixed letters and two varying ones
WordOf(k) ==
    [i \in Pos |-> IF i <= 3 THEN 1
                   ELSE IF i = 4 THEN 1 + ((k \div AlphabetSize) % AlphabetSize)
                   ELSE 1 + (k % AlphabetSize)]

Pool == {WordOf(k) : k \in 0..(PoolSize - 1)}

\* word lists of pairwise distinct words
Universes ==
    UNION {{u \in [1..n -> Pool] : \A i, j \in 1..n : i # j => u[i] # u[j]} :
           n \in 1..MaxWords}

\* no feedback call made yet
NoRes == [of |-> <<>>, pat |-> <<>>, pf |-> <<>>]

\* no partition call made yet
NoParts == [state |-> <<>>, byPattern |-> <<>>, called |-> FALSE,
            arrays |-> <<>>]

\* allCorrectCalls: how often the call invoked a solver on a bucket whose
\* code is all-correct;
\* memoBefore / evictionsBefore: the memo size and the eviction count the
\* call started from
NoCall == [fn |-> "none", arg |-> <<>>, value |-> Zero, bestGuess |-> 0,
           err |-> FALSE, memoBefore |-> 0, evictionsBefore |-> 0,
           allCorrectCalls |-> 0]

\* the page of main.js is not open
uiOff ==
    /\ at = "off"
    /\ yielded = FALSE
    /\ cancel = FALSE
    /\ uiLocked = FALSE
    /\ filtered = <<>>
    /\ letterFiltered = <<>>
    /\ searchTester = 0
    /\ runS = <<>>
    /\ hardMode = FALSE
    /\ poolSelect = "current"
    /\ base2309 = <<>>
    /\ maxCand = 0
    /\ maxPool = 0
    /\ pool = <<>>
    /\ loopI = 0
    /\ rows = <<>>
    /\ table = <<>>
    /\ status = <<>>
    /\ ended = "none"

\* the memo state of a script: the Maps, the counters, the capacity
memoState(m, ch, se, ev, capacity) ==
    [memo |-> m, choice |-> ch, statesEvaluated |-> se, evictions |-> ev,
     cap |-> capacity, allCorrectCalls |-> 0]

curSt == memoState(memo, choice, statesEvaluated, evictions, cap)

\* the effect of one top-level call that returned r and left the candidate
\* array it was passed as arr
ReturnedArray(r, fn, arg, arr) ==
    /\ memo' = r.st.memo
    /\ choice' = r.st.choice
    /\ statesEvaluated' = r.st.statesEvaluated
    /\ evictions' = r.st.evictions
    /\ last' = [fn |-> fn, arg |-> arg, value |-> r.value,
                bestGuess |-> r.bestGuess, err |-> r.err,
                memoBefore |-> Len(memo), evictionsBefore |-> evictions,
                allCorrectCalls |-> r.st.allCorrectCalls]
    /\ phase' = IF r.err THEN "crashed" ELSE phase
    /\ pS' = arr
    /\ UNCHANGED <<pg, pa, pres, pres2, pgIdx, pparts, script, WORDS,
                   PAT, cap, MAX_DEPTH, raw>>
    /\ UNCHANGED uiVars

\* the effect of one top-level call of a script run (the script passes its
\* own list of all indices)
Returned(r, fn, arg) == ReturnedArray(r, fn, arg, pS)

\* the solver of the running script applied to the full candidate set (the
\* call of main in the two scripts of dp_solver_2.js; in the other scripts
\* the function is applied to allCands directly), having returned r
SolveFull(r, fn) ==
    /\ solved' = TRUE
    /\ UNCHANGED roots
    /\ Returned(r, fn, allCands)

\* the next root guess of the selected block was evaluated and returned r
RootCall(r, fn) ==
    /\ roots' = Tail(roots)
    /\ UNCHANGED solved
    /\ Returned(r, fn, <<Head(roots)>>)

SolveStateCall ==
    /\ script = "dp_solver"
    /\ phase = "run"
    /\ ~solved
    /\ \E r \in {solveState(allCands, curSt)} : SolveFull(r, "solveState")

SolveStateDpCall ==
    /\ script = "dp_solver_choice"
    /\ phase = "run"
    /\ ~solved
    /\ \E r \in {solveState_dp(allCands, curSt)} : SolveFull(r, "solveState_dp")

SolveTailCall ==
    /\ script = "dp_top_blocks"
    /\ phase = "run"
    /\ ~solved
    /\ \E r \in {solveTail(allCands, curSt)} : SolveFull(r, "solveTail")

SolveTailExtCall ==
    /\ script = "dp_ext"
    /\ phase = "run"
    /\ ~solved
    /\ \E r \in {solveTail_ext(allCands, curSt)} : SolveFull(r, "solveTail_ext")

SolveStateTopCall ==
    /\ script = "dp_top200"
    /\ phase = "run"
    /\ ~solved
    /\ \E r \in {solveState_top200(allCands, curSt)} :
          SolveFull(r, "solveState_top200")

SolveStateHardCall ==
    /\ script = "dp_hard"
    /\ phase = "run"
    /\ ~solved
    /\ \E r \in {solveState_hard(allCands, curSt)} :
          SolveFull(r, "solveState_hard")

SolveWithFixedRootCall ==
    /\ script = "dp_top_blocks"
    /\ phase = "run"
    /\ roots # <<>>
    /\ \E r \in {solveWithFixedRoot(Head(roots), curSt)} :
          RootCall(r, "solveWithFixedRoot")

SolveWithFixedRootExtCall ==
    /\ script = "dp_ext"
    /\ phase = "run"
    /\ roots # <<>>
    /\ \E r \in {solveWithFixedRoot_ext(Head(roots), curSt)} :
          RootCall(r, "solveWithFixedRoot_ext")

ExpectedWithRootCall ==
    /\ script = "dp_top200"
    /\ phase = "run"
    /\ roots # <<>>
    /\ \E r \in {expectedWithRoot(Head(roots), curSt)} :
          RootCall(r, "expectedWithRoot")

ExpectedGivenFirstGuessCall ==
    /\ script = "dp_hard"
    /\ phase = "run"
    /\ roots # <<>>
    /\ \E r \in {expectedGivenFirstGuess(Head(roots), curSt)} :
          RootCall(r, "expectedGivenFirstGuess")

\* the root guesses a script may be started with
RootChoices(sc, words) ==
    LET n == Len(words)
    IN  IF sc \in {"dp_top_blocks", "dp_ext"}
        THEN {<<bs, bx>> \in (1..n) \X (1..n) : (bx - 1) * bs < n}
        ELSE IF sc \in {"dp_top200", "dp_hard"}
        THEN {<<k, 1>> : k \in 1..n}
        ELSE {<<0, 0>>}

\* the memo capacities a script is run with: the capacity of the source, and
\* for dp_top_blocks with the whole list as one block the small ones as well
Capacities(sc, blockSize, n) ==
    IF sc = "dp_top_blocks" /\ blockSize = n
    THEN (1..MaxCap) \cup {MAX_MEMO_ENTRIES}
    ELSE {MAX_MEMO_ENTRIES}

Init ==
    /\ phase = "run"
    /\ pg = <<>>
    /\ pa = <<>>
    /\ pres = NoRes
    /\ pres2 = NoRes
    /\ pS = <<>>
    /\ pgIdx = 0
    /\ pparts = NoParts
    /\ script \in Scripts
    /\ WORDS \in Universes
    /\ PAT = buildTable(WORDS)
    /\ memo = <<>>
    /\ choice = <<>>
    /\ statesEvaluated = 0
    /\ evictions = 0
    /\ \E c \in RootChoices(script, WORDS) :
          /\ roots = IF script \in {"dp_top_blocks", "dp_ext"}
                     THEN selectedStarters(c[1], c[2])
                     ELSE IF script \in {"dp_top200", "dp_hard"}
                     THEN topK(c[1])
                     ELSE <<>>
          /\ cap \in Capacities(script, c[1], Len(WORDS))
    /\ solved = FALSE
    /\ MAX_DEPTH = 0
    /\ raw = <<>>
    /\ last = NoCall
    /\ uiOff

Next ==
    \/ SolveStateCall
    \/ SolveStateDpCall
    \/ SolveTailCall
    \/ SolveTailExtCall
    \/ SolveStateTopCall
    \/ SolveStateHardCall
    \/ SolveWithFixedRootCall
    \/ SolveWithFixedRootExtCall
    \/ ExpectedWithRootCall
    \/ ExpectedGivenFirstGuessCall

Spec == Init /\ [][Next]_vars

\* ------------------------------------------------------------------------
\* Specification of the feedback functions: one call per step
\* ------------------------------------------------------------------------
\* what the three feedback functions return for the pair (g, a)
feedback(g, a) ==
    [of  |-> patternOf(g, a),
     pat |-> pattern(g, a),
     pf  |-> patternFor(g, a)]

PatternCall ==
    /\ phase = "pattern"
    /\ pres = NoRes
    /\ pres' = feedback(pg, pa)
    /\ UNCHANGED <<phase, pg, pa, pres2>>
    /\ UNCHANGED partVars
    /\ UNCHANGED runVars
    /\ UNCHANGED uiVars

\* the same pair is submitted a second time
PatternCallAgain ==
    /\ phase = "pattern"
    /\ pres # NoRes
    /\ pres2 = NoRes
    /\ pres2' = feedback(pg, pa)
    /\ UNCHANGED <<phase, pg, pa, pres>>
    /\ UNCHANGED partVars
    /\ UNCHANGED runVars
    /\ UNCHANGED uiVars

InitPattern ==
    /\ phase = "pattern"
    /\ pg \in AllWords
    /\ pa \in AllWords
    /\ pres = NoRes
    /\ pres2 = NoRes
    /\ pS = <<>>
    /\ pgIdx = 0
    /\ pparts = NoParts
    /\ script = "none"
    /\ WORDS = <<>>
    /\ PAT = <<>>
    /\ cap = MAX_MEMO_ENTRIES
    /\ memo = <<>>
    /\ choice = <<>>
    /\ statesEvaluated = 0
    /\ evictions = 0
    /\ roots = <<>>
    /\ solved = FALSE
    /\ MAX_DEPTH = 0
    /\ raw = <<>>
    /\ last = NoCall
    /\ uiOff

NextPattern ==
    \/ PatternCall
    \/ PatternCallAgain

SpecPattern == InitPattern /\ [][NextPattern]_vars

\* ------------------------------------------------------------------------
\* Specification of the partition functions: one call on a candidate set
\* ------------------------------------------------------------------------
\* the candidate sets of a list of n words: the ascending lists of indices
\* (the empty one included)
CandidateSets(n) ==
    {s \in UNION {[1..k -> 1..n] : k \in 0..n} :
        \A i, j \in 1..Len(s) : i < j => s[i] < s[j]}

\* the words at the indices of S
wordsAt(S) == [k \in 1..Len(S) |-> WORDS[S[k]]]

\* partitionState on the indices, partitionByPattern on the words
PartitionCall ==
    /\ phase = "partition"
    /\ ~pparts.called
    /\ \E p \in {partitionArrays(<<pS>>, 1, pgIdx, 1, <<>>)} :
          /\ pparts' = [state     |-> partitionState(pS, pgIdx),
                        byPattern |-> partitionByPattern(wordsAt(pS), pg),
                        called    |-> TRUE,
                        arrays    |-> p.map]
          /\ pS' = p.heap[1]
    /\ UNCHANGED <<phase, pg, pa, pres, pres2, pgIdx>>
    /\ UNCHANGED runVars
    /\ UNCHANGED uiVars

InitPartition ==
    /\ phase = "partition"
    /\ pg \in Pool
    /\ pa = <<>>
    /\ pres = NoRes
    /\ pres2 = NoRes
    /\ WORDS \in Universes
    /\ PAT = buildTable(WORDS)
    /\ pS \in CandidateSets(Len(WORDS))
    /\ pgIdx \in 1..Len(WORDS)
    /\ pparts = NoParts
    /\ script = "none"
    /\ cap = MAX_MEMO_ENTRIES
    /\ memo = <<>>
    /\ choice = <<>>
    /\ statesEvaluated = 0
    /\ evictions = 0
    /\ roots = <<>>
    /\ solved = FALSE
    /\ MAX_DEPTH = 0
    /\ raw = <<>>
    /\ last = NoCall
    /\ uiOff

NextPartition == PartitionCall

SpecPartition == InitPartition /\ [][NextPartition]_vars

\* ------------------------------------------------------------------------
\* Specification of the solvers as functions of the candidate set: one call
\* on a fresh memo
\* ------------------------------------------------------------------------
\* the scripts whose solver is applied
SolveScripts == {"dp_solver", "dp_top_blocks", "dp_hard"}

\* the arguments of a solver call: the candidate sets of the list, the
\* empty one included, and the set of the one index past the list
SolveArgs(n) == CandidateSets(n) \cup {<<n + 1>>}

\* the solver of the script applied to pS
SolveOnCall ==
    /\ phase = "solve"
    /\ last.fn = "none"
    /\ \E r \in {IF script = "dp_solver" THEN solveState(pS, curSt)
                 ELSE IF script = "dp_top_blocks" THEN solveTail(pS, curSt)
                 ELSE solveState_hard(pS, curSt)} :
          ReturnedArray(r, IF script = "dp_solver" THEN "solveState"
                           ELSE IF script = "dp_top_blocks" THEN "solveTail"
                           ELSE "solveState_hard", pS,
                        solveArrays(<<pS>>, 1, 0)[1])
    /\ UNCHANGED <<roots, solved>>

InitSolve ==
    /\ phase = "solve"
    /\ pg = <<>>
    /\ pa = <<>>
    /\ pres = NoRes
    /\ pres2 = NoRes
    /\ script \in SolveScripts
    /\ WORDS \in Universes
    /\ PAT = buildTable(WORDS)
    /\ pS \in SolveArgs(Len(WORDS))
    /\ pgIdx = 0
    /\ pparts = NoParts
    /\ cap = MAX_MEMO_ENTRIES
    /\ memo = <<>>
    /\ choice = <<>>
    /\ statesEvaluated = 0
    /\ evictions = 0
    /\ roots = <<>>
    /\ solved = FALSE
    /\ MAX_DEPTH = 0
    /\ raw = <<>>
    /\ last = NoCall
    /\ uiOff

NextSolve == SolveOnCall

SpecSolve == InitSolve /\ [][NextSolve]_vars

\* ------------------------------------------------------------------------
\* Specification of memoStore: any sequence of calls from an empty memo
\* ------------------------------------------------------------------------
\* keys of candidate sets of two words ("i1,i2")
MemoKeys == {<<1, 1 + j>> : j \in 1..MemoKeyCount}

\* values stored
MemoValues == {Rat(3, 2), Rat(2, 1)}

\* the keys a call of memoStore is made with: any of MemoKeys; under the
\* large capacity the key of a set not stored before (solveTail stores a
\* key only after memo.get has missed it)
StoreKeys ==
    IF cap = LargeCap THEN {<<2, 3 + Len(memo) + evictions>>} ELSE MemoKeys

\* the values stored with them (one value under the large capacity)
StoreValues == IF cap = LargeCap THEN {Rat(3, 2)} ELSE MemoValues

\* the keys memo.get is called with: any of MemoKeys, and the oldest key
\* of the memo
GetKeys == MemoKeys \cup (IF memo = <<>> THEN {} ELSE {memo[1].key})

\* "const cached = memo.get(key)": a lookup, which leaves the Map as it is
MemoGetCall ==
    /\ phase = "memo"
    /\ \E key \in GetKeys :
          last' = [fn |-> IF mapHas(memo, key) THEN "memo.get hit"
                          ELSE "memo.get miss",
                   arg |-> key,
                   value |-> IF mapHas(memo, key) THEN mapGet(memo, key)
                             ELSE Zero,
                   bestGuess |-> 0, err |-> FALSE,
                   memoBefore |-> Len(memo), evictionsBefore |-> evictions,
                   allCorrectCalls |-> 0]
    /\ UNCHANGED <<phase, script, WORDS, PAT, cap, memo, choice,
                   statesEvaluated, evictions, roots, solved, MAX_DEPTH,
                   raw>>
    /\ UNCHANGED <<patVars, partVars, uiVars>>

MemoStoreCall ==
    /\ phase = "memo"
    /\ evictions < MaxEvictions
    /\ \E key \in StoreKeys, value \in StoreValues :
          \E st2 \in {memoStore(curSt, key, value)} :
             /\ memo' = st2.memo
             /\ evictions' = st2.evictions
             /\ last' = [fn |-> "memoStore", arg |-> key, value |-> value,
                         bestGuess |-> 0, err |-> FALSE,
                         memoBefore |-> Len(memo),
                         evictionsBefore |-> evictions,
                         allCorrectCalls |-> 0]
    /\ UNCHANGED <<phase, script, WORDS, PAT, cap, choice, statesEvaluated,
                   roots, solved, MAX_DEPTH, raw>>
    /\ UNCHANGED <<patVars, partVars, uiVars>>

InitMemo ==
    /\ phase = "memo"
    /\ pg = <<>>
    /\ pa = <<>>
    /\ pres = NoRes
    /\ pres2 = NoRes
    /\ pS = <<>>
    /\ pgIdx = 0
    /\ pparts = NoParts
    /\ script = "dp_top_blocks"
    /\ WORDS = <<>>
    /\ PAT = <<>>
    /\ cap \in (1..MaxCap) \cup {LargeCap, MAX_MEMO_ENTRIES}
    /\ memo = <<>>
    /\ choice = <<>>
    /\ statesEvaluated = 0
    /\ evictions = 0
    /\ roots = <<>>
    /\ solved = FALSE
    /\ MAX_DEPTH = 0
    /\ raw = <<>>
    /\ last = NoCall
    /\ uiOff

NextMemo ==
    \/ MemoStoreCall
    \/ MemoGetCall

SpecMemo == InitMemo /\ [][NextMemo]_vars

\* ------------------------------------------------------------------------
\* part_001, first script (the table generator): bestExpected with a
\* lookahead depth, evalStartingGuess.  A result is the value, whether an
\* estimate of leafExtraGuesses went into it, and the memo left.
\* ------------------------------------------------------------------------
Est(value, leaf, m) == [value |-> value, leaf |-> leaf, memo |-> m]

\* leafExtraGuesses(k) = 1 + 0.20 * k^0.55 for k > 1, to three decimals
leafExtraGuesses(k) ==
    IF k <= 1 THEN Zero
    ELSE Rat(<<1293, 1366, 1429, 1485, 1536, 1583, 1628, 1670>>[k - 1], 1000)

\* "words.slice().sort()"
sortedWords(words) == SortSeq(words, wordLt)

RECURSIVE byPatternForFrom(_, _, _, _)
\* the loop of partitionByPattern of the table generator, from position k on
byPatternForFrom(words, guess, k, map) ==
    IF k > Len(words) THEN map
    ELSE Bind(patternFor(guess, words[k]), LAMBDA p :
             Bind(IF mapHas(map, p)
                  THEN mapSet(map, p, Append(mapGet(map, p), words[k]))
                  ELSE mapSet(map, p, <<words[k]>>),
                  LAMBDA map2 : byPatternForFrom(words, guess, k + 1, map2)))

\* partitionByPattern(words, guess) of the table generator
partitionByPatternFor(words, guess) == byPatternForFrom(words, guess, 1, <<>>)

\* variant of viaBucket that leaves out the guess made
viaBucket_noGuess(p, sub) == RMul(p, sub)

\* "p * (1 + sub)"
viaBucket(p, sub) == RMul(p, RAdd(One, sub))

RECURSIVE bestExpected(_, _, _)
RECURSIVE bestOver(_, _, _, _, _, _)
RECURSIVE estParts(_, _, _, _, _, _, _)

\* "for (const [pat, bucket] of parts.entries())", from entry bi on
estParts(parts, bi, total, est, leaf, depth, m) ==
    IF bi > Len(parts) THEN Est(est, leaf, m)
    ELSE Bind(Rat(Len(parts[bi].val), total), LAMBDA p :
            IF parts[bi].key = AllCorrect
            THEN estParts(parts, bi + 1, total, RAdd(est, RMul(p, One)),
                          leaf, depth, m)
            ELSE Bind(bestExpected(parts[bi].val, depth - 1, m), LAMBDA sub :
                    estParts(parts, bi + 1, total,
                             RAdd(est, viaBucket(p, sub.value)),
                             leaf \/ sub.leaf, depth, sub.memo)))

\* "for (const g of sorted)", from position gi on
bestOver(sorted, gi, best, leaf, depth, m) ==
    IF gi > Len(sorted) THEN Est(best, leaf, m)
    ELSE Bind(estParts(partitionByPatternFor(sorted, sorted[gi]), 1,
                       Len(sorted), Zero, leaf, depth, m),
              LAMBDA r :
                 bestOver(sorted, gi + 1,
                          IF RLt(r.value, best) THEN r.value ELSE best,
                          r.leaf, depth, r.memo))

\* bestExpected(words, depth, memo); the key is the sorted list and the depth
bestExpected(words, depth, m) ==
    IF Len(words) = 1 THEN Est(One, FALSE, m)
    ELSE IF depth <= 0 THEN Est(leafExtraGuesses(Len(words)), TRUE, m)
    ELSE Bind(sortedWords(words), LAMBDA sorted :
            IF mapHas(m, <<sorted, depth>>)
            THEN Est(mapGet(m, <<sorted, depth>>).value,
                     mapGet(m, <<sorted, depth>>).leaf, m)
            ELSE Bind(bestOver(sorted, 1, Infinity, FALSE, depth, m),
                      LAMBDA r :
                         Est(r.value, r.leaf,
                             mapSet(r.memo, <<sorted, depth>>,
                                    [value |-> r.value, leaf |-> r.leaf]))))

\* evalStartingGuess(words, guess, depth, memo)
evalStartingGuess(words, guess, depth, m) ==
    estParts(partitionByPatternFor(words, guess), 1, Len(words), Zero, FALSE,
             depth, m)

\* the effect of a call of the table generator that returned r and left
\* the array of words it was passed as arr
TableReturned(r, fn, arg, arr) ==
    /\ memo' = r.memo
    /\ pS' = arr
    /\ last' = [fn |-> fn, arg |-> arg, value |-> r.value, bestGuess |-> 0,
                err |-> FALSE, memoBefore |-> Len(memo),
                evictionsBefore |-> evictions, allCorrectCalls |-> 0,
                leaf |-> r.leaf]
    /\ UNCHANGED <<phase, script, WORDS, PAT, cap, choice, statesEvaluated,
                   evictions, MAX_DEPTH, raw, pgIdx, pparts>>
    /\ UNCHANGED <<patVars, uiVars>>

\* bestExpected applied to the words of pS with the depth of the run
BestExpectedCall ==
    /\ phase = "table"
    /\ ~solved
    /\ solved' = TRUE
    /\ UNCHANGED roots
    /\ \E r \in {bestExpected(wordsAt(pS), MAX_DEPTH, memo)} :
          TableReturned(r, "bestExpected", pS,
                        solveArrays(<<pS>>, 1, MAX_DEPTH)[1])

\* "startWords.forEach": the next starting word is evaluated on the list
EvalStartingGuessCall ==
    /\ phase = "table"
    /\ roots # <<>>
    /\ roots' = Tail(roots)
    /\ UNCHANGED solved
    /\ \E r \in {evalStartingGuess(wordsAt(pS), WORDS[Head(roots)],
                                    MAX_DEPTH, memo)} :
          TableReturned(r, "evalStartingGuess", <<Head(roots)>>,
                        evalArrays(<<pS>>, 1, Head(roots), MAX_DEPTH)[1])

\* the generator is run on the words of pS, a non-empty part of a list of
\* distinct words (the reference solvers address them by their indices)
InitTable ==
    /\ phase = "table"
    /\ pg = <<>>
    /\ pa = <<>>
    /\ pres = NoRes
    /\ pres2 = NoRes
    /\ script = "table"
    /\ WORDS \in Universes
    /\ PAT = buildTable(WORDS)
    /\ pS \in CandidateSets(Len(WORDS)) \ {<<>>}
    /\ pgIdx = 0
    /\ pparts = NoParts
    /\ cap = MAX_MEMO_ENTRIES
    /\ memo = <<>>
    /\ choice = <<>>
    /\ statesEvaluated = 0
    /\ evictions = 0
    /\ roots = pS
    /\ solved = FALSE
    /\ last = NoCall
    /\ MAX_DEPTH \in 0..MaxDepth
    /\ raw = <<>>
    /\ uiOff

NextTable ==
    \/ BestExpectedCall
    \/ EvalStartingGuessCall

SpecTable == InitTable /\ [][NextTable]_vars

\* ------------------------------------------------------------------------
\* The word-list loaders.  A file is the list of its lines, a line the list
\* of its cells (the pieces between commas or blanks), a cell its letters
\* and whether they are written in upper case.
\* ------------------------------------------------------------------------
\* "trim().toLowerCase()" of a cell: its letters, in lower case
lowered(cell) == cell.word

\* "/^[a-z]{5}$/.test(s)" for lower-case letters s
isWord(s) == Len(s) = WordLen

\* "s.trim().toLowerCase()" of a line: the word of a line of one cell; a
\* line of no cell is the empty string and a line of several cells holds a
\* comma or a blank, and neither is a word
loweredLine(line) == IF Len(line) = 1 THEN lowered(line[1]) ELSE <<>>

\* "raw.split(/\r?\n/).map(s => s.trim().toLowerCase()).filter(...)": the
\* loader of the second script of dp_solver_2.js, of dp_top_blocks, dp_ext,
\* dp_top200 and of the solver script of main.js
filteredLines(file) ==
    SelectSeq([i \in 1..Len(file) |-> loweredLine(file[i])], isWord)

RECURSIVE uniqueFrom(_, _, _)
\* "if (!seen.has(w)) { seen.add(w); unique.push(w) }", from position k on
uniqueFrom(words, k, unique) ==
    IF k > Len(words) THEN unique
    ELSE uniqueFrom(words, k + 1,
             IF \E i \in 1..Len(unique) : unique[i] = words[k]
             THEN unique ELSE Append(unique, words[k]))

\* dp_solver_2.js loadWords
loadWords(file) == uniqueFrom(filteredLines(file), 1, <<>>)

RECURSIVE cellsFrom(_, _)
\* the cells of the lines from line k on, in reading order
cellsFrom(file, k) ==
    IF k > Len(file) THEN <<>>
    ELSE [i \in 1..Len(file[k]) |-> lowered(file[k][i])] \o cellsFrom(file, k + 1)

\* main.js parseWordsFromCsvText and part_001 loadWordsFromCsv
parseWordsFromCsvText(file) ==
    uniqueFrom(SelectSeq(cellsFrom(file, 1), isWord), 1, <<>>)

\* main.js loadWordsFromArray: state.all
loadWordsFromArray(a) ==
    SortSeq(uniqueFrom(SelectSeq(a, isWord), 1, <<>>), wordLt)

\* the scripts that load a word file ("page" is the page of main.js)
LoadScripts == Scripts \cup {"table", "page"}

\* the word list a script builds from the file
loaded(sc, file) ==
    IF sc = "dp_solver" THEN loadWords(file)
    ELSE IF sc = "table" THEN parseWordsFromCsvText(file)
    ELSE IF sc = "page" THEN loadWordsFromArray(parseWordsFromCsvText(file))
    ELSE filteredLines(file)

\* the script reads its word file
LoadCall ==
    /\ phase = "load"
    /\ last.fn = "none"
    /\ WORDS' = loaded(script, raw)
    /\ last' = [NoCall EXCEPT !.fn = "load"]
    /\ UNCHANGED <<phase, script, PAT, cap, memo, choice, statesEvaluated,
                   evictions, roots, solved, MAX_DEPTH, raw>>
    /\ UNCHANGED <<patVars, partVars, uiVars>>

\* the cells of a file: two words, the first one in upper case as well,
\* and a piece of four letters
Cells ==
    {[word |-> WordOf(0), upper |-> FALSE], [word |-> WordOf(0), upper |-> TRUE],
     [word |-> WordOf(1), upper |-> FALSE],
     [word |-> <<1, 1, 1, 1>>, upper |-> FALSE]}

\* the files of at most MaxLines lines of at most two cells
Files ==
    UNION {[1..n -> UNION {[1..c -> Cells] : c \in 0..2}] : n \in 0..MaxLines}

InitLoad ==
    /\ phase = "load"
    /\ pg = <<>>
    /\ pa = <<>>
    /\ pres = NoRes
    /\ pres2 = NoRes
    /\ pS = <<>>
    /\ pgIdx = 0
    /\ pparts = NoParts
    /\ script \in LoadScripts
    /\ WORDS = <<>>
    /\ PAT = <<>>
    /\ cap = MAX_MEMO_ENTRIES
    /\ memo = <<>>
    /\ choice = <<>>
    /\ statesEvaluated = 0
    /\ evictions = 0
    /\ roots = <<>>
    /\ solved = FALSE
    /\ last = NoCall
    /\ MAX_DEPTH = 0
    /\ raw \in Files
    /\ uiOff

NextLoad == LoadCall

SpecLoad == InitLoad /\ [][NextLoad]_vars

\* ------------------------------------------------------------------------
\* Specification of the calls that are passed a candidate array: a
\* partition call, a solver call, or a run of the table generator
\* ------------------------------------------------------------------------
InitCalls ==
    \/ InitPartition
    \/ InitSolve
    \/ InitTable

NextCalls ==
    \/ NextPartition
    \/ NextSolve
    \/ NextTable

SpecCalls == InitCalls /\ [][NextCalls]_vars

\* ------------------------------------------------------------------------
\* main.js: the Suggest run (suggestNext), the Stop button, lockUI
\* ------------------------------------------------------------------------
\* state.all: the loaded list, sorted by loadWordsFromArray (three fixed
\* letters and two varying ones, over the letters of the list)
stateAll ==
    [k \in 1..LookPool |->
        [i \in Pos |-> IF i <= 3 THEN 1
                       ELSE IF i = 4
                       THEN 1 + (((k - 1) \div LookAlphabet) % LookAlphabet)
                       ELSE 1 + ((k - 1) % LookAlphabet)]]

RECURSIVE ascending(_)
\* the members of a set of numbers as an ascending list
ascending(set) ==
    IF set = {} THEN <<>>
    ELSE LET m == CHOOSE x \in set : \A y \in set : x <= y
         IN  <<m>> \o ascending(set \ {m})

\* the lists state.filtered may hold: sublists of state.all, in its order
FilteredLists ==
    {[k \in 1..Len(s) |-> stateAll[s[k]]] :
        s \in {ascending(c) : c \in {d \in SUBSET (1..LookPool) :
                                        Cardinality(d) <= LookWords}}}

RECURSIVE sumSquares(_, _)
sumSquares(parts, bi) ==
    IF bi > Len(parts) THEN 0
    ELSE Len(parts[bi].val) * Len(parts[bi].val) + sumSquares(parts, bi + 1)

RECURSIVE maxLen(_, _)
maxLen(parts, bi) ==
    IF bi > Len(parts) THEN 0
    ELSE Bind(maxLen(parts, bi + 1), LAMBDA m :
             IF Len(parts[bi].val) > m THEN Len(parts[bi].val) ELSE m)

\* entropyAndExpectedSize(S, guess). The entropy H = log2 n - (1/n) * log2 of
\* the product of count^count is kept as that product: of two guesses on the
\* same S the one with the smaller product has the larger entropy
entropyAndExpectedSize(S, guess) ==
    Bind(partitionByPattern(S, guess), LAMBDA parts :
        [entropy   |-> weightFrom(parts, 1),
         expected  |-> Rat(sumSquares(parts, 1), Len(S)),
         maxBucket |-> maxLen(parts, 1)])

\* "(b.score - a.score) || (a.expected - b.expected)" is negative
scoredBefore(a, b) ==
    \/ a.score < b.score
    \/ a.score = b.score /\ RLt(a.expected, b.expected)

\* the positions of a list in the order a stable sort by before leaves them
stableOrder(list, before(_, _)) ==
    SortSeq([k \in 1..Len(list) |-> k],
            LAMBDA a, b : \/ before(list[a], list[b])
                          \/ ~before(list[b], list[a]) /\ a < b)

\* one ranking loop of buildGuessPoolCapped and its slice: the words of
\* list scored against S, best first, the first K of them
rankTop(list, S, K) ==
    Bind([k \in 1..Len(list) |->
             Bind(entropyAndExpectedSize(S, list[k]), LAMBDA met :
                 [g |-> list[k], score |-> met.entropy,
                  expected |-> met.expected])],
         LAMBDA scored :
            Bind(stableOrder(scored, scoredBefore), LAMBDA order :
                [k \in 1..(IF K < Len(list) THEN K ELSE Len(list)) |->
                    scored[order[k]].g]))

\* "Math.max(1, Number(byId('maxCand').value) || n)"
candsThr(n) ==
    LET v == IF maxCand = 0 THEN n ELSE maxCand
    IN  IF v < 1 THEN 1 ELSE v

\* the words of ext that are not in S ("if (baseSet.has(g)) continue")
RECURSIVE notInS(_, _, _)
notInS(ext, S, k) ==
    IF k > Len(ext) THEN <<>>
    ELSE IF \E j \in 1..Len(S) : S[j] = ext[k] THEN notInS(ext, S, k + 1)
    ELSE <<ext[k]>> \o notInS(ext, S, k + 1)

\* buildGuessPoolCapped(S) from the ranking loops on: the lists are shorter
\* than the 50 items after which a loop yields, so the loops run in one
\* piece and see one value of state.cancel, which ends them at once
buildGuessPoolCapped(S, ext) ==
    IF cancel THEN <<>>
    ELSE IF hardMode THEN rankTop(S, S, candsThr(Len(S)))
    ELSE rankTop(S, S, candsThr(Len(S)))
         \o (IF maxPool > 0 THEN rankTop(notInS(ext, S, 1), S, maxPool)
             ELSE <<>>)

\* variant of expLeaf that counts one guess for every leaf bucket
expLeaf_alwaysOne(arr2) == One

\* "const expLeaf = (arr2.length === 1) ? 1 : 2"
expLeaf(arr2) == IF Len(arr2) = 1 THEN One ELSE Rat(2, 1)

RECURSIVE secondSum(_, _, _)
\* "for (const [pat2, arr2] of parts2.entries())", from entry bi on
secondSum(parts2, bi, m) ==
    IF bi > Len(parts2) THEN Zero
    ELSE Bind(parts2[bi].val, LAMBDA arr2 :
         Bind(Rat(Len(arr2), m), LAMBDA p2 :
         Bind(IF parts2[bi].key = AllCorrect THEN RMul(p2, One)
              ELSE RMul(p2, RAdd(One, expLeaf(arr2))), LAMBDA term :
         Bind(secondSum(parts2, bi + 1, m), LAMBDA rest :
              RAdd(term, rest)))))

RECURSIVE secondBest(_, _, _)
\* "for (const g2 of arr)", from position gi on
secondBest(arr, gi, best) ==
    IF gi > Len(arr) THEN best
    ELSE Bind(secondSum(partitionByPattern(arr, arr[gi]), 1, Len(arr)),
              LAMBDA e2 :
                 Bind(IF RLt(e2, best) THEN e2 ELSE best, LAMBDA best2 :
                      secondBest(arr, gi + 1, best2)))

RECURSIVE firstSum(_, _, _)
\* "for (const [pat, arr] of parts.entries())", from entry bi on
firstSum(parts, bi, n) ==
    IF bi > Len(parts) THEN Zero
    ELSE Bind(parts[bi].val, LAMBDA arr :
         Bind(Rat(Len(arr), n), LAMBDA p :
         Bind(IF parts[bi].key = AllCorrect THEN RMul(p, One)
              ELSE Bind(secondBest(arr, 1, Infinity), LAMBDA best :
                        RMul(p, RAdd(One, best))), LAMBDA term :
         Bind(firstSum(parts, bi + 1, n), LAMBDA rest :
              RAdd(term, rest)))))

\* EstepsOneLookaheadLocal(S, g)
EstepsOneLookaheadLocal(S, g) ==
    Bind(partitionByPattern(S, g), LAMBDA parts : firstSum(parts, 1, Len(S)))

\* the row suggestNext pushes for the guess g
suggestRow(S, g) ==
    Bind(entropyAndExpectedSize(S, g), LAMBDA met :
        [word |-> g, esteps |-> EstepsOneLookaheadLocal(S, g),
         entropy |-> met.entropy, expected |-> met.expected,
         maxBucket |-> met.maxBucket])

\* "(a.esteps - b.esteps) || (b.entropy - a.entropy) ||
\*  (a.expected - b.expected)" is negative
rowBefore(a, b) ==
    \/ RLt(a.esteps, b.esteps)
    \/ /\ a.esteps = b.esteps
       /\ \/ a.entropy < b.entropy
          \/ a.entropy = b.entropy /\ RLt(a.expected, b.expected)

\* rows.sort(...)
sortRows(rs) ==
    Bind(stableOrder(rs, rowBefore), LAMBDA order :
        [k \in 1..Len(rs) |-> rs[order[k]]])

\* renderSuggestRows: "rows.slice(0, 10)"
renderSuggestRows(rs) == SubSeq(rs, 1, IF Len(rs) < 10 THEN Len(rs) ELSE 10)

pageVars == <<filtered, letterFiltered, searchTester, hardMode, poolSelect,
              maxCand, maxPool>>

\* lockUI(yes): the buttons and inputs follow uiLocked, the Stop button is
\* enabled exactly while it is set
lockUI(yes) == uiLocked' = yes

\* variant of finally that leaves the page locked
finally_staysLocked(how) ==
    /\ UNCHANGED uiLocked
    /\ at' = "idle"
    /\ yielded' = FALSE
    /\ ended' = how

\* "finally { lockUI(false); }" and the end of the call
finally(how) ==
    /\ lockUI(FALSE)
    /\ at' = "idle"
    /\ yielded' = FALSE
    /\ ended' = how

\* the click on Suggest: suggestNext up to its first await
SuggestNext ==
    /\ at = "idle"
    /\ runS' = filtered
    /\ table' = <<>>
    /\ cancel' = FALSE
    /\ rows' = <<>>
    /\ pool' = <<>>
    /\ loopI' = 0
    /\ IF Len(filtered) = 0
       THEN /\ status' = <<"No candidates.">>
            /\ ended' = "noCandidates"
            /\ UNCHANGED <<at, yielded, uiLocked>>
       ELSE /\ lockUI(TRUE)
            /\ at' = "timer"
            /\ yielded' = TRUE
            /\ ended' = "none"
            /\ UNCHANGED status
    /\ UNCHANGED <<pageVars, base2309>>
    /\ UNCHANGED <<phase, patVars, partVars, runVars>>

\* suggestNext from the return of buildGuessPoolCapped to the loop
afterPool(p) ==
    IF cancel \/ Len(p) = 0
    THEN /\ status' = <<"Stopped before evaluating candidates.">>
         /\ finally("stoppedBefore")
         /\ UNCHANGED <<pool, loopI, rows, table, cancel>>
    ELSE /\ status' = <<"Evaluating top words ...">>
         /\ pool' = p
         /\ loopI' = 0
         /\ rows' = <<>>
         /\ at' = "loop"
         /\ yielded' = FALSE
         /\ UNCHANGED <<uiLocked, table, cancel, ended>>

\* the timer of the first await fired: buildGuessPoolCapped runs, up to the
\* fetch of the external pool if one is needed
TimerFired ==
    /\ at = "timer"
    /\ IF ~hardMode /\ poolSelect = "2309" /\ Len(base2309) = 0
       THEN /\ at' = "fetch"
            /\ UNCHANGED <<yielded, cancel, uiLocked, pool, loopI, rows,
                           table, status, ended>>
       ELSE \E p \in {buildGuessPoolCapped(runS,
                           IF poolSelect = "2309" THEN base2309
                           ELSE stateAll)} : afterPool(p)
    /\ UNCHANGED <<pageVars, base2309, runS>>
    /\ UNCHANGED <<phase, patVars, partVars, runVars>>

\* the fetch of ensurePoolLoaded settled: with the list, or with the error
\* fetchCsv throws, which leaves suggestNext through its finally
FetchSettled ==
    /\ at = "fetch"
    /\ \E ok \in BOOLEAN :
          IF ok
          THEN /\ base2309' = stateAll
               /\ \E p \in {buildGuessPoolCapped(runS, stateAll)} :
                     afterPool(p)
          ELSE /\ finally("threw")
               /\ UNCHANGED <<base2309, cancel, pool, loopI, rows, table,
                              status>>
    /\ UNCHANGED <<pageVars, runS>>
    /\ UNCHANGED <<phase, patVars, partVars, runVars>>

\* variant of EvalGuess that evaluates the guess against state.filtered
EvalGuess_readsFiltered ==
    /\ at = "loop"
    /\ loopI < Len(pool)
    /\ ~cancel
    /\ \E row \in {suggestRow(filtered, pool[loopI + 1])} :
          rows' = Append(rows, row)
    /\ loopI' = loopI + 1
    /\ yielded' = (loopI % 4 = 0)
    /\ UNCHANGED <<at, cancel, uiLocked, pool, table, status, ended>>
    /\ UNCHANGED <<pageVars, base2309, runS>>
    /\ UNCHANGED <<phase, patVars, partVars, runVars>>

\* variant of EvalGuess that does not test state.cancel
EvalGuess_ignoresCancel ==
    /\ at = "loop"
    /\ loopI < Len(pool)
    /\ \E row \in {suggestRow(runS, pool[loopI + 1])} :
          rows' = Append(rows, row)
    /\ loopI' = loopI + 1
    /\ yielded' = (loopI % 4 = 0)
    /\ UNCHANGED <<at, cancel, uiLocked, pool, table, status, ended>>
    /\ UNCHANGED <<pageVars, base2309, runS>>
    /\ UNCHANGED <<phase, patVars, partVars, runVars>>

\* one pass of the evaluation loop that finds state.cancel clear: the guess
\* is evaluated, its row pushed, and on "(i & 3) === 0" the loop yields
EvalGuess ==
    /\ at = "loop"
    /\ loopI < Len(pool)
    /\ ~cancel
    /\ \E row \in {suggestRow(runS, pool[loopI + 1])} :
          rows' = Append(rows, row)
    /\ loopI' = loopI + 1
    /\ yielded' = (loopI % 4 = 0)
    /\ UNCHANGED <<at, cancel, uiLocked, pool, table, status, ended>>
    /\ UNCHANGED <<pageVars, base2309, runS>>
    /\ UNCHANGED <<phase, patVars, partVars, runVars>>

\* the loop ends, by its bound or by the break on state.cancel: the rows are
\* sorted and rendered, and the finally unlocks
Render ==
    /\ at = "loop"
    /\ loopI >= Len(pool) \/ cancel
    /\ \E sorted \in {sortRows(rows)} :
          /\ rows' = sorted
          /\ table' = renderSuggestRows(sorted)
    /\ status' = <<"Top 10 Words by Estimated E[steps]">>
    /\ finally("rendered")
    /\ UNCHANGED <<cancel, pool, loopI>>
    /\ UNCHANGED <<pageVars, base2309, runS>>
    /\ UNCHANGED <<phase, patVars, partVars, runVars>>

\* stopBtn.onclick, while the button is enabled and the page handles clicks
\* (a second click before the flag is read changes the status text only;
\* of the " (stopping...)" pieces that pile up at the end of the text over
\* calls that end in an error, one is kept)
StopClick ==
    /\ uiLocked
    /\ yielded
    /\ ~cancel
    /\ cancel' = TRUE
    /\ status' = IF Len(status) > 0 /\ status[Len(status)] = " (stopping...)"
                 THEN status
                 ELSE Append(status, " (stopping...)")
    /\ UNCHANGED <<at, yielded, uiLocked, pool, loopI, rows, table, ended>>
    /\ UNCHANGED <<pageVars, base2309, runS>>
    /\ UNCHANGED <<phase, patVars, partVars, runVars>>

\* the tester buildSearchTester makes of the search box: null for an empty
\* box, and for the one-letter search c the test of the regular expression
\* /c/, which the words with a c pass
SearchTesters == 0..LookAlphabet

\* apply(): the words of state.all that pass the tester and the letter
\* filters, in the order of state.all, as a new array
apply(tester) ==
    SelectSeq(stateAll,
              LAMBDA w : /\ tester = 0 \/ \E i \in Pos : w[i] = tester
                         /\ \E k \in 1..Len(letterFiltered) :
                               letterFiltered[k] = w)

\* searchBox.oninput, which lockUI leaves enabled: handled while no call of
\* suggestNext runs or the call has yielded
SearchInput ==
    /\ at = "idle" \/ yielded
    /\ at # "off"
    /\ \E c \in SearchTesters \ {searchTester} :
          /\ searchTester' = c
          /\ filtered' = apply(c)
    /\ UNCHANGED <<at, yielded, cancel, uiLocked, pool, loopI, rows, table,
                   status, ended, runS, base2309>>
    /\ UNCHANGED <<letterFiltered, hardMode, poolSelect, maxCand, maxPool>>
    /\ UNCHANGED <<phase, patVars, partVars, runVars>>

\* the page with a list loaded and filtered, and the inputs set
InitSuggest ==
    /\ phase = "suggest"
    /\ pg = <<>>
    /\ pa = <<>>
    /\ pres = NoRes
    /\ pres2 = NoRes
    /\ pS = <<>>
    /\ pgIdx = 0
    /\ pparts = NoParts
    /\ script = "none"
    /\ filtered \in FilteredLists
    /\ letterFiltered = filtered
    /\ searchTester = 0
    /\ runS = <<>>
    /\ WORDS = filtered
    /\ PAT = buildTable(WORDS)
    /\ cap = MAX_MEMO_ENTRIES
    /\ memo = <<>>
    /\ choice = <<>>
    /\ statesEvaluated = 0
    /\ evictions = 0
    /\ roots = <<>>
    /\ solved = FALSE
    /\ MAX_DEPTH = 0
    /\ raw = <<>>
    /\ last = NoCall
    /\ at = "idle"
    /\ yielded = FALSE
    /\ cancel = FALSE
    /\ uiLocked = FALSE
    /\ hardMode \in BOOLEAN
    /\ poolSelect \in IF hardMode THEN {"current"} ELSE {"current", "2309"}
    /\ base2309 = <<>>
    /\ maxCand \in {0, 2}
    /\ maxPool \in IF hardMode THEN {0} ELSE {0, 1}
    /\ pool = <<>>
    /\ loopI = 0
    /\ rows = <<>>
    /\ table = <<>>
    /\ status = <<>>
    /\ ended = "none"

NextSuggest ==
    \/ SuggestNext
    \/ TimerFired
    \/ FetchSettled
    \/ EvalGuess
    \/ Render
    \/ StopClick

SpecSuggest == InitSuggest /\ [][NextSuggest]_vars

\* the Suggest run on a page whose search box is typed in
NextSearch ==
    \/ SuggestNext
    \/ TimerFired
    \/ FetchSettled
    \/ EvalGuess
    \/ Render
    \/ StopClick
    \/ SearchInput

SpecSearch == InitSuggest /\ [][NextSearch]_vars

\* the timers fire, the fetch settles, and a call that can go on goes on
SpecSuggestFair ==
    /\ SpecSuggest
    /\ WF_vars(TimerFired)
    /\ WF_vars(FetchSettled)
    /\ WF_vars(EvalGuess)
    /\ WF_vars(Render)

\* ------------------------------------------------------------------------
\* Properties of the feedback functions (under SpecPattern)
\* ------------------------------------------------------------------------
\* how many times the letter c occurs in the word w
Count(w, c) == Cardinality({i \in Pos : w[i] = c})

\* how many positions of the guess g holding c are marked "2" or "1" in res
Credited(g, res, c) ==
    Cardinality({i \in Pos : g[i] = c /\ res[i] \in {"1", "2"}})

MinOf(x, y) == IF x < y THEN x ELSE y

\* C1: for every guess, answer and letter c, the number of positions of the
\* guess that hold c and are marked "2" or "1" equals the smaller of the
\* number of c in the guess and the number of c in the answer; this for
\* patternOf (dp_solver_2.js), pattern (main.js) and patternFor (part_001).
C1_LetterCredit ==
    pres # NoRes =>
        \A c \in Letters :
            /\ Credited(pg, pres.of, c) = MinOf(Count(pg, c), Count(pa, c))
            /\ Credited(pg, pres.pat, c) = MinOf(Count(pg, c), Count(pa, c))
            /\ Credited(pg, pres.pf, c) = MinOf(Count(pg, c), Count(pa, c))

\* a call whose guess repeats a letter the answer holds once, elsewhere:
\* exactly one of the copies is marked "1", the others "0"
C1_Witness ==
    /\ pres # NoRes
    /\ \E c \in Letters :
          /\ Count(pg, c) >= 2
          /\ Count(pa, c) = 1
          /\ \A i \in Pos : pg[i] = c => pa[i] # c
          /\ Cardinality({i \in Pos : pg[i] = c /\ pres.of[i] = "1"}) = 1
          /\ Cardinality({i \in Pos : pg[i] = c /\ pres.of[i] = "0"}) >= 1

RMin(vals) == CHOOSE x \in vals : \A y \in vals : RLe(x, y)

\* the memo state of a fresh script with a memo that never evicts
freshUnbounded == memoState(<<>>, <<>>, 0, 0, MAX_MEMO_ENTRIES)

RECURSIVE bruteState(_)
RECURSIVE bruteStateSum(_, _, _)

\* the sum over the buckets bi.. of a guess, the all-correct bucket costing
\* the guess alone, every other bucket the guess and the value of the bucket
bruteStateSum(S, parts, bi) ==
    IF bi > Len(parts) THEN Zero
    ELSE RAdd(IF parts[bi].key = AllCorrect
              THEN Rat(Len(parts[bi].val), Len(S))
              ELSE RMul(Rat(Len(parts[bi].val), Len(S)),
                        RAdd(One, bruteState(parts[bi].val))),
              bruteStateSum(S, parts, bi + 1))

\* the full cost of the guess with index guessIdx on S
costState(S, guessIdx) == bruteStateSum(S, partitionState(S, guessIdx), 1)

\* the mean number of guesses of an optimal closed-policy play on S
bruteState(S) ==
    IF Len(S) = 1 THEN One
    ELSE RMin({costState(S, S[i]) : i \in 1..Len(S)})

RECURSIVE bruteTail(_)
RECURSIVE bruteTailSum(_, _, _)

\* the sum over the buckets bi.. of prob times the value of the bucket
bruteTailSum(S, bs, bi) ==
    IF bi > Len(bs) THEN Zero
    ELSE RAdd(RMul(Rat(Len(bs[bi].val), Len(S)), bruteTail(bs[bi].val)),
              bruteTailSum(S, bs, bi + 1))

\* the full cost "1 + expectedTail" of the guess with index gIdx on S
costTail(S, gIdx) == RAdd(One, bruteTailSum(S, buckets(S, gIdx), 1))

\* the recurrence of solveTail and of the second solveState of dp_solver_2.js
bruteTail(S) ==
    IF Len(S) = 1 THEN One
    ELSE RMin({costTail(S, S[i]) : i \in 1..Len(S)})

\* ------------------------------------------------------------------------
\* Properties of the solver scripts (under Spec)
\* ------------------------------------------------------------------------
ThreeHalves == Rat(3, 2)

\* C2: for every candidate set of exactly two distinct words, every exact
\* solver (solveState, solveTail, solveTail of dp_ext) returns 1.5.
C2_TwoWordsThreeHalves ==
    /\ (last.fn \in {"solveState", "solveTail", "solveTail_ext"}
            /\ Len(last.arg) = 2)
          => (~last.err /\ last.value = ThreeHalves)
    /\ script \in {"dp_solver", "dp_top_blocks", "dp_ext"} =>
          \A i \in 1..Len(memo) :
              Len(memo[i].key) = 2 => memo[i].val = ThreeHalves

\* the indices held by a list of indices
Elems(S) == {S[k] : k \in 1..Len(S)}

\* C3: the memoized closed-policy solvers (solveState of dp_solver_2.js,
\* solveTail of dp_top_blocks) return, for every candidate set, the value of
\* their recurrence evaluated with no memo, whatever earlier calls have left
\* in the memo; every value they store is that value too.
C3_MemoEqualsBrute ==
    /\ last.fn = "solveState" =>
          (~last.err /\ last.value = bruteState(last.arg))
    /\ last.fn = "solveTail" =>
          (~last.err /\ last.value = bruteTail(last.arg))
    /\ script = "dp_solver" =>
          \A i \in 1..Len(memo) : memo[i].val = bruteState(memo[i].key)
    /\ script = "dp_top_blocks" =>
          \A i \in 1..Len(memo) : memo[i].val = bruteTail(memo[i].key)

\* solveTail was applied to a set of three or more words with entries of
\* earlier root evaluations in the memo
C3_Witness ==
    /\ last.fn = "solveTail"
    /\ last.memoBefore > 0
    /\ Len(last.arg) >= 3
    /\ last.value = bruteTail(last.arg)

\* C4: with any memo capacity of at least 1, solveWithFixedRoot and
\* solveTail return what they return from an empty memo that never evicts.
C4_BoundedEqualsUnbounded ==
    script = "dp_top_blocks" =>
        /\ last.fn = "solveWithFixedRoot" =>
              /\ ~last.err
              /\ last.value =
                    solveWithFixedRoot(last.arg[1], freshUnbounded).value
        /\ last.fn = "solveTail" =>
              /\ ~last.err
              /\ last.value = solveTail(last.arg, freshUnbounded).value

\* a root evaluation during which the bounded memo evicted an entry
C4_Witness ==
    /\ last.fn = "solveWithFixedRoot"
    /\ cap <= MaxCap
    /\ evictions > last.evictionsBefore
    /\ last.value = solveWithFixedRoot(last.arg[1], freshUnbounded).value

\* the buckets parts of the list S, code(x) being the feedback code of x:
\* no bucket is empty, every member of a bucket is a member of S with the
\* code of the bucket, no two buckets share a member, every member of S is
\* in the bucket of its code, and the sizes sum to the size of S
GoodPartition(S, parts, code(_)) ==
    /\ \A i \in 1..Len(parts) :
          /\ parts[i].val # <<>>
          /\ \A k \in 1..Len(parts[i].val) :
                /\ parts[i].val[k] \in Elems(S)
                /\ code(parts[i].val[k]) = parts[i].key
          /\ \A j \in 1..Len(parts) :
                i # j => /\ parts[i].key # parts[j].key
                         /\ Elems(parts[i].val) \cap Elems(parts[j].val) = {}
    /\ \A x \in Elems(S) :
          \E i \in 1..Len(parts) :
              parts[i].key = code(x) /\ x \in Elems(parts[i].val)
    /\ LET size[i \in 0..Len(parts)] ==
               IF i = 0 THEN 0 ELSE size[i - 1] + Len(parts[i].val)
       IN  size[Len(parts)] = Len(S)

\* C5: for every candidate set S and guess g, the buckets of
\* partitionState(S, g) and of partitionByPattern(S, g) are pairwise
\* disjoint and non-empty, every element of S is in the bucket keyed by its
\* feedback code, and the bucket sizes sum to |S|.
C5_Partition ==
    pparts.called =>
        /\ GoodPartition(pS, pparts.state,
                         LAMBDA x : patternOf(WORDS[pgIdx], WORDS[x]))
        /\ GoodPartition(wordsAt(pS), pparts.byPattern,
                         LAMBDA w : pattern(pg, w))

\* a guess split a set of four words into a bucket of two and two others
C5_Witness ==
    /\ pparts.called
    /\ Len(pS) = 4
    /\ Len(pparts.state) = 3
    /\ \E i \in 1..3 : Len(pparts.state[i].val) = 2
    /\ Len(pparts.byPattern) >= 2

\* C6: the exact solvers (solveState of dp_solver_2.js and of main.js)
\* return 1 exactly for the one-word sets and more than 1 for larger sets.
C6_OneIffSingleton ==
    /\ last.fn \in {"solveState", "solveState_hard"} =>
          /\ ~last.err
          /\ (last.value = One) <=> (Len(last.arg) = 1)
          /\ Len(last.arg) > 1 => RLt(One, last.value)
    /\ script \in {"dp_solver", "dp_hard"} =>
          \A i \in 1..Len(memo) :
              Len(memo[i].key) > 1 /\ RLt(One, memo[i].val)

\* solveState of main.js returned more than 1 for a set of several words
C6_Witness ==
    /\ last.fn = "solveState_hard"
    /\ Len(last.arg) >= 2
    /\ RLt(One, last.value)
    /\ memo # <<>>

\* C7: the closed-policy solvers (solveTail of dp_top_blocks, the second
\* solveState of dp_solver_2.js) return at most |S| for a set S of distinct
\* words.
C7_AtMostSize ==
    /\ last.fn \in {"solveTail", "solveState_dp"} =>
          (~last.err /\ RLe(last.value, Rat(Len(last.arg), 1)))
    /\ script \in {"dp_top_blocks", "dp_solver_choice"} =>
          \A i \in 1..Len(memo) :
              RLe(memo[i].val, Rat(Len(memo[i].key), 1))

\* the solver was applied to three or more words and a stored value
\* attains the bound
C7_Witness ==
    /\ last.fn = "solveState_dp"
    /\ Len(last.arg) >= 3
    /\ RLe(last.value, Rat(Len(last.arg), 1))
    /\ \E i \in 1..Len(memo) : memo[i].val = Rat(Len(memo[i].key), 1)

\* C8: the forced-first-guess cost of a root guess g is the mean, over the
\* secrets of the universe, of the number of guesses until the secret is
\* guessed with g first and optimal play after it, the secret g counting
\* one guess (solveWithFixedRoot, expectedWithRoot, expectedGivenFirstGuess).
C8_RootCostIsMean ==
    last.fn \in {"solveWithFixedRoot", "expectedWithRoot",
                 "expectedGivenFirstGuess"} =>
        (~last.err /\ last.value = costState(allCands, last.arg[1]))

\* the guesses of S listed before the guess g
Before(S, g) == {S[k] : k \in {j \in 1..Len(S) : \E m \in (j + 1)..Len(S) : S[m] = g}}

\* the recorded best guess g of S with recorded value v, cost(x) being the
\* full cost of the guess x on S: g is a guess of S of cost v, no guess costs
\* less, and every guess listed before g costs more
FirstMinimiser(S, g, v, cost(_)) ==
    /\ g \in Elems(S)
    /\ cost(g) = v
    /\ \A x \in Elems(S) : RLe(v, cost(x))
    /\ \A x \in Before(S, g) : RLt(v, cost(x))

\* C9: the best guess recorded for a set S of several words (the dp entry of
\* the first script of dp_solver_2.js, the choice Map of the second) has a
\* cost equal to the value recorded for S and is the first guess of S, in
\* ascending index order, that attains the minimum.
C9_FirstMinimiser ==
    /\ script = "dp_solver" =>
          /\ Len(choice) = Len(memo)
          /\ \A i \in 1..Len(choice) :
                FirstMinimiser(choice[i].key, choice[i].val,
                               mapGet(memo, choice[i].key),
                               LAMBDA x : costState(choice[i].key, x))
    /\ script = "dp_solver_choice" =>
          /\ Len(choice) = Len(memo)
          /\ \A i \in 1..Len(choice) :
                FirstMinimiser(choice[i].key, choice[i].val,
                               mapGet(memo, choice[i].key),
                               LAMBDA x : costTail(choice[i].key, x))
    /\ (last.fn \in {"solveState", "solveState_dp"} /\ Len(last.arg) > 1) =>
          /\ ~last.err
          /\ mapHas(choice, last.arg)
          /\ last.bestGuess = mapGet(choice, last.arg)

\* one recorded best guess is not the first guess of its set, and another
\* set has two guesses of minimal cost, the recorded one being the first
C9_Witness ==
    /\ script = "dp_solver"
    /\ \E i \in 1..Len(choice) : choice[i].val # choice[i].key[1]
    /\ \E i \in 1..Len(choice) :
          \E x \in Elems(choice[i].key) :
              /\ x # choice[i].val
              /\ costState(choice[i].key, x) = mapGet(memo, choice[i].key)


\* C14: a solver call on an empty candidate set, or on a set with an index
\* outside the list, ends in an error and returns no value
C14_EmptyOrOutsideIsError ==
    (/\ last.fn \in {"solveState", "solveTail", "solveState_hard"}
     /\ \/ last.arg = <<>>
        \/ \E k \in 1..Len(last.arg) : last.arg[k] > N)
        => last.err

\* the words with indices t and s get the same code from every guess of the
\* list other than the two themselves
indistinguishable(t, s) ==
    \A g \in (1..N) \ {t, s} : PAT[<<g, t>>] = PAT[<<g, s>>]

\* S is a non-empty subset of T, and every word of T that is not in S is
\* indistinguishable from a word of S
indistinguishableSuperset(S, T) ==
    /\ S # <<>>
    /\ Elems(S) \subseteq Elems(T)
    /\ \A t \in Elems(T) \ Elems(S) :
          \E x \in Elems(S) : indistinguishable(t, x)

\* C15: under the closed policy (solveState of dp_solver_2.js), for
\* candidate sets S and T, S a subset of T, every word of T outside S being
\* indistinguishable under the pattern table from a word of S, the value of
\* T is at least the value of S
C15_SupersetNotCheaper ==
    (/\ script = "dp_solver"
     /\ last.fn = "solveState"
     /\ \A k \in 1..Len(last.arg) : last.arg[k] <= N) =>
        \A S \in CandidateSets(N) :
            indistinguishableSuperset(S, last.arg) =>
                RGe(last.value, solveState(S, freshUnbounded).value)

\* solveState applied to a set T with a proper subset S as above, of a
\* smaller value
C15_Witness ==
    /\ script = "dp_solver"
    /\ last.fn = "solveState"
    /\ \A k \in 1..Len(last.arg) : last.arg[k] <= N
    /\ \E S \in CandidateSets(N) :
          /\ indistinguishableSuperset(S, last.arg)
          /\ Len(S) < Len(last.arg)
          /\ RLt(solveState(S, freshUnbounded).value, last.value)

\* C13: after any sequence of memoStore calls from an empty memo, the memo
\* holds no more entries than its capacity, and the entry of the last call,
\* key and value, is in the memo when the call has returned
C13_MemoWithinCapacity ==
    /\ Len(memo) <= cap
    /\ last.fn = "memoStore" =>
          /\ mapHas(memo, last.arg)
          /\ mapGet(memo, last.arg) = last.value

\* a call of memoStore on a full memo, which evicted the oldest entry for
\* the new one
C13_Witness ==
    /\ last.fn = "memoStore"
    /\ last.memoBefore = cap
    /\ evictions > last.evictionsBefore
    /\ Len(memo) = cap
    /\ mapHas(memo, last.arg)

\* the argument of the last call: a set of several words of the list
severalWords ==
    /\ Len(last.arg) > 1
    /\ \A k \in 1..Len(last.arg) : last.arg[k] <= N

\* C18: the early break of the exact solvers (solveState of dp_solver_2.js,
\* solveTail of dp_top_blocks, solveState of main.js) never changes the
\* result: the value returned for a candidate set, and every value stored
\* on the way, is the minimum over the guesses of the sum over every bucket,
\* and the best guess recorded is the first guess of that minimum
C18_BreakKeepsResult ==
    /\ (last.fn = "solveState" /\ severalWords) =>
          /\ ~last.err
          /\ last.value = bruteState(last.arg)
          /\ FirstMinimiser(last.arg, last.bestGuess, last.value,
                            LAMBDA x : costState(last.arg, x))
          /\ \A i \in 1..Len(memo) : memo[i].val = bruteState(memo[i].key)
    /\ (last.fn = "solveTail" /\ severalWords) =>
          /\ ~last.err
          /\ last.value = bruteTail(last.arg)
          /\ \A i \in 1..Len(memo) : memo[i].val = bruteTail(memo[i].key)
    /\ (last.fn = "solveState_hard" /\ severalWords) =>
          /\ ~last.err
          /\ last.value = bruteTail(last.arg)
          /\ FirstMinimiser(last.arg, last.bestGuess, last.value,
                            LAMBDA x : costTail(last.arg, x))
          /\ \A i \in 1..Len(memo) : memo[i].val = bruteTail(memo[i].key)

\* a call in which a guess was abandoned: a guess after the best one whose
\* first bucket alone already costs as much as the best guess in full
C18_Witness ==
    /\ last.fn = "solveTail"
    /\ severalWords
    /\ last.value = bruteTail(last.arg)
    /\ \E gi \in 2..Len(last.arg) :
          LET bs == buckets(last.arg, last.arg[gi])
          IN  /\ Len(bs) > 1
              /\ RGe(RAdd(One, weighted(bs[1].val, Len(last.arg),
                                         bruteTail(bs[1].val))),
                     last.value)
              /\ \E gj \in 1..(gi - 1) :
                    costTail(last.arg, last.arg[gj]) = last.value

\* C17: in every entropy ranking that selects root guesses, of two words of
\* equal entropy the lexicographically smaller one is ranked first
C17_TiesLexicographic ==
    script \in {"dp_top_blocks", "dp_ext", "dp_top200", "dp_hard"} =>
        \A i, j \in 1..Len(roots) :
            (i < j /\ entropyWeight(roots[i]) = entropyWeight(roots[j]))
                => wordLt(WORDS[roots[i]], WORDS[roots[j]])

\* C19: under the open policy (dp_ext: every word of the list is a guess),
\* solveTail and solveWithFixedRoot return, with a finite value
C19_OpenPolicyReturns ==
    last.fn \in {"solveTail_ext", "solveWithFixedRoot_ext"} =>
        (~last.err /\ last.value # Infinity)

\* C20: the exact solvers of dp_solver_2.js (first script), dp_top_blocks
\* and dp_top200 are never invoked on a bucket whose code is all-correct
C20_AllCorrectNotRecursed ==
    (script \in {"dp_solver", "dp_top_blocks", "dp_top200"}
        /\ last.fn # "none") => last.allCorrectCalls = 0

\* ------------------------------------------------------------------------
\* Claims on the Suggest run of main.js
\* ------------------------------------------------------------------------
\* the words of the rows rs
rowWords(rs) == {rs[k].word : k \in 1..Len(rs)}

\* C11: the evaluation loop of suggestNext tests the cancel flag at the top
\* of every pass: from a pass that finds it set on, no guess is evaluated
\* (the rows stay the ones there are), and every row, pushed or rendered, is
\* the complete row of a guess of the pool the loop has passed
C11_CancelStopsEvaluation ==
    /\ [](\A k \in 1..Len(rows) :
             /\ rows[k] = suggestRow(runS, rows[k].word)
             /\ \E j \in 1..loopI : pool[j] = rows[k].word)
    /\ [](\A k \in 1..Len(table) : \E j \in 1..Len(rows) : table[k] = rows[j])
    /\ [][(at = "loop" /\ cancel) =>
             /\ Len(rows') = Len(rows)
             /\ rowWords(rows') = rowWords(rows)
             /\ loopI' = loopI]_vars

\* a run stopped in the middle of the loop: some guesses of the pool have
\* their rows rendered, the others were never evaluated
C11_Witness ==
    /\ at = "idle"
    /\ cancel
    /\ ended = "rendered"
    /\ Len(table) > 0
    /\ Len(rows) < Len(pool)

\* the exact expected number of guesses of the closed policy on the whole
\* list when the first guess is forced to be the word with index gIdx: the
\* bucket loop of solveState for that guess, with nothing to break on
forcedFirst(gIdx) ==
    stateBuckets(allCands, partitionState(allCands, gIdx), 1, Zero, Infinity,
                 freshUnbounded).value

\* C12: on a list of 5 distinct words, the value EstepsOneLookaheadLocal
\* gives a first guess of the list is at least the exact expected number of
\* guesses of the closed policy with that first guess
C12_LookaheadAtLeastExact ==
    \A k \in 1..Len(rows) : \A j \in 1..Len(runS) :
        (Len(runS) = 5 /\ runS[j] = rows[k].word)
            => RGe(rows[k].esteps, forcedFirst(j))

\* a first guess of a list of 5 words evaluated, its value above the exact
\* one
C12_Witness ==
    \E k \in 1..Len(rows) : \E j \in 1..Len(runS) :
        /\ Len(runS) = 5
        /\ runS[j] = rows[k].word
        /\ RLt(forcedFirst(j), rows[k].esteps)

\* how a run that was stopped has ended: with the sorted rows evaluated so
\* far rendered, or, none evaluated, with the "Stopped ..." status and
\* nothing rendered; the one error is that of the fetch of the pool
stoppedRun ==
    \/ /\ ended = "stoppedBefore"
       /\ rows = <<>>
       /\ table = <<>>
       /\ status = <<"Stopped before evaluating candidates.">>
    \/ /\ ended = "rendered"
       /\ Len(rows) > 0
       /\ rows = sortRows(rows)
       /\ table = renderSuggestRows(rows)
    \/ ended = "threw" /\ ~hardMode /\ poolSelect = "2309"

keysOf(m) == {m[i].key : i \in 1..Len(m)}

\* C21: a call of memoStore on a memo holding at least as many entries as
\* its capacity removes exactly max(1, floor(capacity / 10)) entries, the
\* ones at the head of the insertion order; the entries behind them keep
\* their key, value and order; the new entry is in the memo afterwards (it
\* is set after the removal); a lookup changes nothing of the memo
C21_EvictsOldestFirst ==
    [][/\ MemoGetCall => memo' = memo
       /\ (MemoStoreCall /\ Len(memo) >= cap) =>
             LET tenth == cap \div 10
                 k     == IF tenth >= 1 THEN tenth ELSE 1
                 key   == last'.arg
                 old   == {memo[i].key : i \in 1..k}
                 later == [i \in 1..(Len(memo) - k) |-> memo[i + k]]
             IN  /\ Len(memo) >= k
                 /\ evictions' = evictions + k
                 /\ keysOf(memo') = (keysOf(memo) \ old) \cup {key}
                 /\ \A i \in 1..Len(later) :
                       /\ memo'[i].key = later[i].key
                       /\ later[i].key # key => memo'[i].val = later[i].val
                 /\ mapHas(memo', key)
                 /\ mapGet(memo', key) = last'.value]_vars

\* a call of memoStore on a full memo of the large capacity: two entries
\* were removed and the rest is still there
C21_Witness ==
    /\ phase = "memo"
    /\ cap = LargeCap
    /\ last.fn = "memoStore"
    /\ last.memoBefore = cap
    /\ evictions = last.evictionsBefore + 2
    /\ Len(memo) = cap - 1

\* the code res of the guess g against the answer a marks the positions
\* that are not "2" letter by letter: of the positions holding one letter
\* the leftmost k are "1" and the others "0", k being the smaller of the
\* number of these positions and the number of copies of the letter in a
\* where g does not match a (position i is among the leftmost k exactly
\* when fewer than k of these positions lie left of it)
LeftmostCredit(g, a, res) ==
    \A i \in Pos :
       res[i] # "2" =>
          LET open   == Cardinality({j \in Pos : g[j] = g[i] /\ res[j] # "2"})
              before == Cardinality({j \in 1..(i - 1) :
                                       g[j] = g[i] /\ res[j] # "2"})
              unused == Cardinality({j \in Pos : a[j] = g[i] /\ g[j] # a[j]})
          IN  res[i] = IF before < MinOf(open, unused) THEN "1" ELSE "0"

\* C22: for every guess, answer and letter c, among the positions of the
\* guess that hold c and are not marked correct, the ones marked
\* present-elsewhere are exactly the leftmost k (k as in LeftmostCredit)
\* and the others are marked absent; this for patternOf, pattern and
\* patternFor
C22_LeftmostCredited ==
    pres # NoRes =>
        \A res \in {pres.of, pres.pat, pres.pf} : LeftmostCredit(pg, pa, res)

\* a call whose guess holds a letter at three positions, none of them
\* correct, against an answer with two copies of it: the first two are
\* marked "1" and the third "0"
C22_Witness ==
    /\ pres # NoRes
    /\ \E c \in Letters :
          \E i1, i2, i3 \in Pos :
             /\ i1 < i2 /\ i2 < i3
             /\ {i \in Pos : pg[i] = c} = {i1, i2, i3}
             /\ Cardinality({j \in Pos : pa[j] = c /\ pg[j] # c}) = 2
             /\ pres.of[i1] = "1" /\ pres.of[i2] = "1" /\ pres.of[i3] = "0"
             /\ pres.pat[i1] = "1" /\ pres.pat[i2] = "1" /\ pres.pat[i3] = "0"

\* C23: the feedback function that marks the used positions of the answer
\* (patternOf) and the two that count the unmatched letters of the answer
\* (pattern of main.js, patternFor of the table generator) return the same
\* code for every pair of words
C23_SameCode ==
    pres # NoRes => (pres.of = pres.pat /\ pres.of = pres.pf)

\* a call whose guess holds a letter more often, outside the correct
\* positions, than the answer has unmatched copies of it, together with a
\* correct position of the same letter: the three codes are one code with
\* a "2", a "1" and a "0" for that letter
C23_Witness ==
    /\ pres # NoRes
    /\ pres.pat = pres.of
    /\ pres.pf = pres.of
    /\ \E c \in Letters :
          \E i, j, k \in Pos :
             /\ pg[i] = c /\ pg[j] = c /\ pg[k] = c
             /\ pres.pat[i] = "2" /\ pres.pf[j] = "1" /\ pres.pat[k] = "0"

\* C24: the copies of the closed-policy exact solver (solveState of
\* dp_solver_2.js, solveTail of part_000, solveState of dp_top200 and
\* solveState of main.js) return the same value for the same list of
\* distinct words and the same non-empty candidate set
C24_CopiesAgree ==
    (phase = "solve" /\ last.fn # "none" /\ pS # <<>>
                     /\ pS \in CandidateSets(N)) =>
        /\ solveState(pS, freshUnbounded).value = last.value
        /\ solveTail(pS, freshUnbounded).value = last.value
        /\ solveState_top200(pS, freshUnbounded).value = last.value
        /\ solveState_hard(pS, freshUnbounded).value = last.value

\* C25: with a depth of at least the number of words, bestExpected takes no
\* estimate of leafExtraGuesses and returns the value of the closed-policy
\* exact solver for the set, and evalStartingGuess returns the exact cost
\* of the set with the first guess forced
C25_DeepEnoughIsExact ==
    (phase = "table" /\ MAX_DEPTH >= Len(pS)) =>
        /\ last.fn = "bestExpected" =>
              /\ ~last.leaf
              /\ last.value = solveState(pS, freshUnbounded).value
        /\ last.fn = "evalStartingGuess" =>
              /\ ~last.leaf
              /\ last.value = costState(pS, last.arg[1])

\* bestExpected has returned for a set of at least three words at a depth
\* equal to their number, after the starting words had been evaluated and
\* had filled the memo
C25_Witness ==
    /\ phase = "table"
    /\ last.fn = "bestExpected"
    /\ Len(pS) >= 3
    /\ MAX_DEPTH = Len(pS)
    /\ roots = <<>>
    /\ memo # <<>>
    /\ ~last.leaf
    /\ RLt(One, last.value)

\* the greatest of a non-empty set of natural numbers
MaxOf(nums) == CHOOSE x \in nums : \A y \in nums : y <= x

RECURSIVE callDepth(_)
\* how deep the calls of a closed-policy solver on S can nest below the
\* call on S: every word of S is tried as the guess and every bucket is
\* passed to the solver (a bucket equal to S would never return; it counts
\* as |S|)
callDepth(S) ==
    IF Len(S) <= 1 THEN 0
    ELSE 1 + MaxOf(UNION {
                 {IF buckets(S, g)[bi].val = S THEN Len(S)
                  ELSE callDepth(buckets(S, g)[bi].val) :
                     bi \in 1..Len(buckets(S, g))} : g \in Elems(S)})

\* C26: on a list of distinct words, a closed-policy solver applied to a
\* non-empty candidate set S returns; every bucket it passes on (it passes
\* none on when S is one word) is a set of fewer words than S, so the calls
\* nest at most |S| - 1 deep
C26_ClosedPolicyReturns ==
    (script \in SolveScripts /\ last.fn # "none" /\ pS # <<>>
                             /\ pS \in CandidateSets(N)) =>
        /\ ~last.err
        /\ Len(pS) >= 2 =>
              \A g \in Elems(pS) :
                 \A bi \in 1..Len(buckets(pS, g)) :
                    Len(buckets(pS, g)[bi].val) < Len(pS)
        /\ callDepth(pS) <= Len(pS) - 1

\* solveTail has returned for a set of four words, one of whose guesses
\* leaves a bucket of several words, so that the calls nest
C26_Witness ==
    /\ phase = "solve"
    /\ last.fn = "solveTail"
    /\ ~last.err
    /\ Len(pS) = 4
    /\ callDepth(pS) >= 2
    /\ statesEvaluated >= 2

\* the list of words is not in the order of sort()
unsortedWords(ws) == \E i \in 1..(Len(ws) - 1) : wordLt(ws[i + 1], ws[i])

\* C27: a partition call, a solver call and a call of the table generator
\* leave the candidate array they were passed as it was, element by
\* element, and the pattern table and the word list as they were; the
\* buckets of a partition call are arrays made by the call, none of them
\* the array passed, and hold the candidates bucket by bucket
C27_ArgumentsUntouched ==
    [][/\ pS' = pS
       /\ PAT' = PAT
       /\ WORDS' = WORDS
       /\ pparts'.called =>
             /\ \A bi \in 1..Len(pparts'.arrays) : pparts'.arrays[bi].val > 1
             /\ Len(pparts'.arrays) = Len(pparts'.state)]_vars

\* bestExpected has returned for three or more words that were passed in
\* an order other than the sorted one, at a depth that lets it sort and
\* partition; the list of starting words, taken from the same array before
\* the call, still equals it
C27_Witness ==
    /\ phase = "table"
    /\ last.fn = "bestExpected"
    /\ Len(pS) >= 3
    /\ MAX_DEPTH >= 2
    /\ unsortedWords(wordsAt(pS))
    /\ roots = pS
    /\ memo # <<>>

\* C28: the word list a script builds from its word file holds pairwise
\* distinct words, whatever the file (a file that repeats a word included)
C28_LoadedWordsDistinct ==
    (phase = "load" /\ last.fn = "load") =>
        \A i, j \in 1..Len(WORDS) : i # j => WORDS[i] # WORDS[j]


\* ------------------------------------------------------------------------
\* Properties of a Suggest run while the search box is typed in (under
\* SpecSearch)
\* ------------------------------------------------------------------------
\* C29: every row of a run of suggestNext is the row of its guess on the copy
\* of state.filtered the run took when it started: the copy is the list of
\* that moment, it stays what it is until the run has ended, and a search
\* input handled while the run has yielded, which replaces state.filtered,
\* changes neither the copy nor the pool, the rows or the table of the run
C29_RunKeepsItsCandidates ==
    /\ [](\A k \in 1..Len(rows) : rows[k] = suggestRow(runS, rows[k].word))
    /\ [][(at = "idle" /\ runS' # runS) => runS' = filtered]_vars
    /\ [][at # "idle" => runS' = runS]_vars
    /\ [][filtered' # filtered =>
             UNCHANGED <<runS, pool, loopI, rows, table>>]_vars

\* a run whose second row was pushed after a search input had replaced
\* state.filtered by another list, non-empty, on which the guess of that row
\* has another row
C29_Witness ==
    /\ at = "loop"
    /\ ~yielded
    /\ loopI >= 2
    /\ Len(rows) >= 2
    /\ Len(filtered) > 0
    /\ filtered # runS
    /\ rows[2] # suggestRow(filtered, rows[2].word)


\* ------------------------------------------------------------------------
\* Properties of the memo keys of a script run (under Spec)
\* ------------------------------------------------------------------------
\* the scripts whose solver looks its argument up under cands.join(',')
JoinKeyed == Scripts \ {"dp_solver"}

\* the indices of an array, as a set
indexSet(cands) == {cands[k] : k \in 1..Len(cands)}

strictlyAscending(cands) ==
    \A k \in 1..(Len(cands) - 1) : cands[k] < cands[k + 1]

\* C30: in a script that keys its memo by cands.join(','), every array the
\* solver has looked up and stored is strictly ascending, so without a
\* repeated index, and two keys of the memo that hold the same set of
\* indices are the same key
C30_JoinKeysAscending ==
    script \in JoinKeyed =>
        \A i \in 1..Len(memo) :
            /\ strictlyAscending(memo[i].key)
            /\ \A j \in 1..Len(memo) :
                  indexSet(memo[i].key) = indexSet(memo[j].key)
                      => memo[i].key = memo[j].key

\* a run that has stored, besides the root set, a bucket of two or more
\* candidates that is not a run of consecutive indices
C30_Witness ==
    /\ script \in JoinKeyed
    /\ solved
    /\ \E i \in 1..Len(memo) :
          /\ Len(memo[i].key) >= 2
          /\ memo[i].key # allCands
          /\ \E k \in 1..(Len(memo[i].key) - 1) :
                memo[i].key[k] + 1 < memo[i].key[k + 1]

====
